---- MODULE Spec2Model ----
(***************************************************************************)
(* Model of the Anki synchronisation pipeline of obsidian-trigger-         *)
(* flashcards: AnkiConnectService (anki-connect.ts) and AnkiDirectExporter *)
(* (anki-direct-exporter.ts).  Text is a sequence of one-character        *)
(* strings, so that the regular-expression rewrites of the source are     *)
(* computed, character by character, as the code computes them.           *)
(***************************************************************************)
EXTENDS Integers, Sequences, FiniteSets, TLC

(***************************************************************************)
(* Characters and text                                                     *)
(***************************************************************************)

LowerSeq ==
  <<"a","b","c","d","e","f","g","h","i","j","k","l","m",
    "n","o","p","q","r","s","t","u","v","w","x","y","z">>

UpperSeq ==
  <<"A","B","C","D","E","F","G","H","I","J","K","L","M",
    "N","O","P","Q","R","S","T","U","V","W","X","Y","Z">>

Lower ==
  {LowerSeq[i] : i \in 1..Len(LowerSeq)}

Upper ==
  {UpperSeq[i] : i \in 1..Len(UpperSeq)}

Digit ==
  {"0","1","2","3","4","5","6","7","8","9"}

\* JavaScript \w
IsWordChar(c) ==
  c \in Lower \cup Upper \cup Digit \cup {"_"}

\* JavaScript \s
IsSpace(c) ==
  c \in {" ", "\t", "\n", "\r"}

\* String.prototype.toLowerCase, one character
ToLowerChar(c) ==
  IF c \in Upper
    THEN LowerSeq[CHOOSE i \in 1..Len(UpperSeq) : UpperSeq[i] = c]
    ELSE c

toLowerCase(s) ==
  [i \in 1..Len(s) |-> ToLowerChar(s[i])]

\* p occurs in s at position i
StartsAt(s, i, p) ==
  /\ i >= 1
  /\ i + Len(p) - 1 <= Len(s)
  /\ SubSeq(s, i, i + Len(p) - 1) = p

\* String.prototype.includes
Includes(s, p) ==
  \E text \in {s}, part \in {p} :
    \E i \in 1..(Len(text) - Len(part) + 1) : StartsAt(text, i, part)

\* String.prototype.startsWith
StartsWith(s, p) ==
  StartsAt(s, 1, p)

\* index of the first occurrence of p in s at or after i, 0 when there is none
IndexOfFrom(s, p, i) ==
  IF \E k \in i..(Len(s) - Len(p) + 1) : StartsAt(s, k, p)
    THEN CHOOSE k \in i..(Len(s) - Len(p) + 1) :
           /\ StartsAt(s, k, p)
           /\ \A m \in i..(k - 1) : ~StartsAt(s, m, p)
    ELSE 0

\* the first position at or after i that holds no whitespace (Len(s) + 1 when
\* only whitespace follows)
NextNonSpace(s, i) ==
  CHOOSE j \in i..(Len(s) + 1) :
    /\ j = Len(s) + 1 \/ ~IsSpace(s[j])
    /\ \A m \in i..(j - 1) : IsSpace(s[m])

\* the first position at or after i that holds whitespace (Len(s) + 1 when
\* none follows)
NextSpace(s, i) ==
  CHOOSE j \in i..(Len(s) + 1) :
    /\ j = Len(s) + 1 \/ IsSpace(s[j])
    /\ \A m \in i..(j - 1) : ~IsSpace(s[m])

\* the last position at or before i that holds no whitespace (0 when only
\* whitespace precedes)
PrevNonSpace(s, i) ==
  CHOOSE j \in 0..i :
    /\ j = 0 \/ ~IsSpace(s[j])
    /\ \A m \in (j + 1)..i : IsSpace(s[m])

\* end of the maximal whitespace run that contains position i
SpaceRunEnd(s, i) ==
  NextNonSpace(s, i) - 1

\* start of the maximal whitespace run that contains position i
SpaceRunStart(s, i) ==
  PrevNonSpace(s, i) + 1

\* String.prototype.trim
trim(s) ==
  SubSeq(s, NextNonSpace(s, 1), PrevNonSpace(s, Len(s)))

\* the concatenation of the texts ps[a], ..., ps[b]
RECURSIVE FlattenRange(_, _, _)
FlattenRange(ps, a, b) ==
  IF a > b THEN <<>>
  ELSE IF a = b THEN ps[a]
  ELSE FlattenRange(ps, a, (a + b) \div 2) \o FlattenRange(ps, (a + b) \div 2 + 1, b)

\* the concatenation of a sequence of texts
Concat(ps) ==
  CHOOSE joined \in {FlattenRange(pieces, 1, Len(pieces)) : pieces \in {ps}} : TRUE

\* s.replace(/[^\w\s]/g, ' ')
StripPunctuation(s) ==
  [i \in 1..Len(s) |-> IF IsWordChar(s[i]) \/ IsSpace(s[i]) THEN s[i] ELSE " "]

\* s.replace(/\s+/g, ' '): a whitespace run leaves one space, at its start
CollapseSpaces(s) ==
  Concat([i \in 1..Len(s) |->
            IF ~IsSpace(s[i]) THEN <<s[i]>>
            ELSE IF i = 1 \/ ~IsSpace(s[i - 1]) THEN <<" ">>
            ELSE <<>>])

\* s.split(/\s+/): the pieces between maximal whitespace runs; a leading or
\* trailing run yields an empty piece, as in JavaScript
SplitSpaces(s) ==
  LET starts == SelectSeq([i \in 1..Len(s) |->
                             IF ~IsSpace(s[i]) /\ (i = 1 \/ IsSpace(s[i - 1]))
                               THEN i ELSE 0],
                          LAMBDA x : x # 0)
      words  == [k \in 1..Len(starts) |->
                   SubSeq(s, starts[k], NextSpace(s, starts[k]) - 1)]
      lead   == IF s = <<>> \/ IsSpace(s[1]) THEN <<(<<>>)>> ELSE <<>>
      trail  == IF s # <<>> /\ IsSpace(s[Len(s)]) THEN <<(<<>>)>> ELSE <<>>
  IN  lead \o words \o trail

\* words.join(' ')
JoinSpace(ws) ==
  Concat([k \in 1..Len(ws) |-> IF k = 1 THEN ws[k] ELSE <<" ">> \o ws[k]])

\* the largest element of a non-empty set of integers
MaxOf(S) ==
  CHOOSE m \in S : \A x \in S : x <= m

(***************************************************************************)
(* AnkiConnectService: text conversions (anki-connect.ts)                  *)
(***************************************************************************)

BR ==
  <<"<","b","r",">">>

DotMd ==
  <<".","m","d">>

\* the "\n" positions of the maximal whitespace run that contains position i
RunNewlines(s, i) ==
  {k \in SpaceRunStart(s, i)..SpaceRunEnd(s, i) : s[k] = "\n"}

\* the least element of a non-empty set of integers
MinOf(S) ==
  CHOOSE m \in S : \A x \in S : m <= x

\* .replace(/\n\s*\n/g, '<br><br>'): \s* is greedy, so a match runs from the
\* first to the last "\n" of a whitespace run that holds at least two
ReplaceBlankLines(s) ==
  Concat([i \in 1..Len(s) |->
            IF ~IsSpace(s[i]) \/ Cardinality(RunNewlines(s, i)) < 2 THEN <<s[i]>>
            ELSE IF i = MinOf(RunNewlines(s, i)) THEN BR \o BR
            ELSE IF i > MinOf(RunNewlines(s, i)) /\ i <= MaxOf(RunNewlines(s, i)) THEN <<>>
            ELSE <<s[i]>>])

\* .replace(/\n/g, '<br>')
ReplaceNewlines(s) ==
  Concat([i \in 1..Len(s) |-> IF s[i] = "\n" THEN BR ELSE <<s[i]>>])

\* .replace(/\s+<br>/g, '<br>'): a whitespace run right before "<br>" goes
DropSpaceBeforeBr(s) ==
  Concat([i \in 1..Len(s) |->
            IF IsSpace(s[i]) /\ StartsAt(s, SpaceRunEnd(s, i) + 1, BR)
              THEN <<>> ELSE <<s[i]>>])

\* .replace(/<br>\s+/g, '<br>'): a whitespace run right after "<br>" goes
DropSpaceAfterBr(s) ==
  Concat([i \in 1..Len(s) |->
            IF IsSpace(s[i]) /\ StartsAt(s, SpaceRunStart(s, i) - Len(BR), BR)
              THEN <<>> ELSE <<s[i]>>])

convertLineBreaksToHtml(text) ==
  DropSpaceAfterBr(DropSpaceBeforeBr(ReplaceNewlines(ReplaceBlankLines(text))))

\* characters encodeURIComponent leaves alone
UriUnreserved ==
  Lower \cup Upper \cup Digit \cup {"-", "_", ".", "!", "~", "*", "'", "(", ")"}

\* encodeURIComponent of one ASCII character (the texts of the model are
\* printable ASCII without the backquote)
EncodeUriChar(c) ==
  IF c \in UriUnreserved THEN <<c>>
  ELSE CASE c = " "  -> <<"%","2","0">>
         [] c = "\"" -> <<"%","2","2">>
         [] c = "#"  -> <<"%","2","3">>
         [] c = "$"  -> <<"%","2","4">>
         [] c = "%"  -> <<"%","2","5">>
         [] c = "&"  -> <<"%","2","6">>
         [] c = "+"  -> <<"%","2","B">>
         [] c = ","  -> <<"%","2","C">>
         [] c = "/"  -> <<"%","2","F">>
         [] c = ":"  -> <<"%","3","A">>
         [] c = ";"  -> <<"%","3","B">>
         [] c = "="  -> <<"%","3","D">>
         [] c = "?"  -> <<"%","3","F">>
         [] c = "@"  -> <<"%","4","0">>
         [] c = "["  -> <<"%","5","B">>
         [] c = "\\" -> <<"%","5","C">>
         [] c = "]"  -> <<"%","5","D">>
         [] c = "^"  -> <<"%","5","E">>
         [] c = "{"  -> <<"%","7","B">>
         [] c = "|"  -> <<"%","7","C">>
         [] c = "}"  -> <<"%","7","D">>
         [] c = "\t" -> <<"%","0","9">>
         [] c = "\r" -> <<"%","0","D">>

encodeURIComponent(s) ==
  Concat([i \in 1..Len(s) |-> EncodeUriChar(s[i])])

\* escapeHtml of convertFilenameToLink, one character
EscapeHtmlChar(c) ==
  CASE c = "&"  -> <<"&","a","m","p",";">>
    [] c = "<"  -> <<"&","l","t",";">>
    [] c = ">"  -> <<"&","g","t",";">>
    [] c = "\"" -> <<"&","q","u","o","t",";">>
    [] c = "'"  -> <<"&","#","3","9",";">>
    [] OTHER    -> <<c>>

escapeHtml(s) ==
  Concat([i \in 1..Len(s) |-> EscapeHtmlChar(s[i])])

\* filename.replace('.md', ''): a string pattern replaces the first occurrence
RemoveFirstDotMd(filename) ==
  LET k == IndexOfFrom(filename, DotMd, 1)
  IN  IF k = 0 THEN filename
      ELSE SubSeq(filename, 1, k - 1) \o SubSeq(filename, k + Len(DotMd), Len(filename))

\* the replacement callback of convertFilenameToLink
FilenameAnchor(filename, vaultName) ==
  <<"<","a"," ","h","r","e","f","=","\"">>
    \o <<"o","b","s","i","d","i","a","n",":","/","/","o","p","e","n","?","v","a","u","l","t","=">>
    \o encodeURIComponent(vaultName)
    \o <<"&","f","i","l","e","=">>
    \o encodeURIComponent(RemoveFirstDotMd(filename))
    \o <<"\"",">">>
    \o escapeHtml(filename)
    \o <<"<","/","a",">">>

\* start of the line that contains position i
LineStart(s, i) ==
  CHOOSE j \in 1..i :
    /\ j = 1 \/ s[j - 1] = "\n"
    /\ \A m \in j..(i - 1) : s[m] # "\n"

\* end of the file name /^([^<>\n]+\.md)/m matches on the line that starts at
\* i, 0 when it matches none: the greedy class takes the longest prefix of the
\* line, free of "<", ">" and "\n", that ends in ".md"
FilenameEnd(s, i) ==
  LET stop == CHOOSE j \in i..(Len(s) + 1) :
                /\ j = Len(s) + 1 \/ s[j] \in {"<", ">", "\n"}
                /\ \A m \in i..(j - 1) : s[m] \notin {"<", ">", "\n"}
      M == {m \in (i + 1)..(stop - Len(DotMd)) : StartsAt(s, m, DotMd)}
  IN  IF M = {} THEN 0 ELSE MaxOf(M) + Len(DotMd) - 1

\* text.replace(/^([^<>\n]+\.md)/gm, callback)
convertFilenameToLink(text, vaultName) ==
  Concat([i \in 1..Len(text) |->
            LET ls == LineStart(text, i)
                fe == FilenameEnd(text, ls)
            IN  IF i > fe THEN <<text[i]>>
                ELSE IF i = ls THEN FilenameAnchor(SubSeq(text, ls, fe), vaultName)
                ELSE <<>>])

(***************************************************************************)
(* AnkiConnectService: notes, search keys and similarity                   *)
(***************************************************************************)

\* settings.ankiConnect.noteType (DEFAULT_SETTINGS)
NoteType ==
  "Basic"

\* the vault name the exporter passes to convertQuestionToAnkiNote
VaultName ==
  <<"b","r","a","i","n">>

DefaultVault ==
  <<"M","y"," ","D","r","i","v","e","/","d","o","c","s","/","b","r","a","i","n">>

\* options.map((opt, i) => `${String.fromCharCode(65 + i)}. ${opt}`).join('\n')
RECURSIVE OptionLines(_, _)
OptionLines(options, i) ==
  IF i > Len(options) THEN <<>>
  ELSE <<UpperSeq[i]>> \o <<"."," ">> \o options[i]
         \o (IF i < Len(options) THEN <<"\n">> ELSE <<>>)
         \o OptionLines(options, i + 1)

\* A QuizQuestion is a record [type, question, answer, hasOptions, options,
\* explanation, clozeText]; an absent text is the empty text (both are falsy
\* in the code), an absent options array has hasOptions = FALSE.
convertQuestionToAnkiNote(question, deckName, triggerWord, vaultName) ==
  LET finalDeckName == IF triggerWord # <<>> THEN triggerWord ELSE deckName
      vault == IF vaultName # <<>> THEN vaultName ELSE DefaultVault
      isCloze == question.type = "cloze" /\ question.clozeText # <<>>
      clozeFields ==
        [Text  |-> convertLineBreaksToHtml(convertFilenameToLink(question.clozeText, vault)),
         Extra |-> IF question.explanation # <<>>
                     THEN convertLineBreaksToHtml(question.explanation)
                     ELSE <<>>]
      optionsText == <<"\n","\n","O","p","t","i","o","n","s",":","\n">>
                       \o OptionLines(question.options, 1)
      front == IF question.type = "multiple-choice" /\ question.hasOptions
                 THEN convertLineBreaksToHtml(
                        convertFilenameToLink(question.question \o optionsText, vault))
                 ELSE convertLineBreaksToHtml(
                        convertFilenameToLink(question.question, vault))
      basicFields ==
        [Front |-> front,
         Back  |-> convertLineBreaksToHtml(
                     question.answer \o
                       (IF question.explanation # <<>>
                          THEN <<"\n","\n">> \o question.explanation
                          ELSE <<>>))]
      tag(kind, arg) == [kind |-> kind, arg |-> arg]
      tags == <<tag("obsidian-plugin", <<>>), tag("type::", <<question.type>>)>>
                \o (IF triggerWord # <<>> THEN <<tag("trigger::", triggerWord)>> ELSE <<>>)
                \o (IF question.type = "cloze" THEN <<tag("cloze-deletion", <<>>)>> ELSE <<>>)
  IN  [deckName  |-> finalDeckName,
       modelName |-> IF isCloze THEN "Cloze" ELSE NoteType,
       fields    |-> IF isCloze THEN clozeFields ELSE basicFields,
       tags      |-> tags]

\* note.fields[name] || ''
FieldOr(fields, name) ==
  IF name \in DOMAIN fields THEN fields[name] ELSE <<>>

\* end of the match of /\{\{c\d+::(.*?)\}\}/ at position i, 0 when it does not
\* match there: the lazy group ends at the first "}}", and "." does not cross
\* a line break
ClozeMarkerEnd(s, i) ==
  LET d == CHOOSE j \in (i + 3)..(Len(s) + 1) :
             /\ j = Len(s) + 1 \/ s[j] \notin Digit
             /\ \A m \in (i + 3)..(j - 1) : s[m] \in Digit
      k == IndexOfFrom(s, <<"}","}">>, d + 2)
  IN  IF /\ StartsAt(s, i, <<"{","{","c">>)
         /\ d > i + 3
         /\ StartsAt(s, d, <<":",":">>)
         /\ k # 0
         /\ \A m \in (d + 2)..(k - 1) : s[m] \notin {"\n", "\r"}
        THEN k + 1
        ELSE 0

\* the text the group of the match at i captured
ClozeMarkerGroup(s, i) ==
  SubSeq(s, IndexOfFrom(s, <<":",":">>, i) + 2, ClozeMarkerEnd(s, i) - 2)

\* textContent.replace(/\{\{c\d+::(.*?)\}\}/g, '$1'), from position i on
RECURSIVE StripClozeMarkers(_, _)
StripClozeMarkers(s, i) ==
  LET starts == {k \in i..Len(s) : ClozeMarkerEnd(s, k) # 0}
  IN  IF starts = {} THEN SubSeq(s, i, Len(s))
      ELSE SubSeq(s, i, MinOf(starts) - 1)
             \o ClozeMarkerGroup(s, MinOf(starts))
             \o StripClozeMarkers(s, ClozeMarkerEnd(s, MinOf(starts)) + 1)

\* the number of words of a search key
KeyWords ==
  3

\* the length a word must exceed to enter a search key
MinWordLen ==
  2

\* text.split(/\s+/).filter(w => w.length > 2).slice(0, 3).join(' ')
SearchWords(text) ==
  LET long == SelectSeq(SplitSpaces(text), LAMBDA w : Len(w) > MinWordLen)
  IN  JoinSpace(SubSeq(long, 1, IF Len(long) < KeyWords THEN Len(long) ELSE KeyWords))

\* the query findMatchingNotesInfo builds for a note: the deck, the note type,
\* the searched field and the key; words = <<>> stands for the empty query
LookupQuery(note) ==
  IF note.modelName = "Cloze"
    THEN [deck  |-> note.deckName, model |-> note.modelName, field |-> "Text",
          words |-> SearchWords(StripClozeMarkers(FieldOr(note.fields, "Text"), 1))]
    ELSE [deck  |-> note.deckName, model |-> note.modelName, field |-> "Front",
          words |-> SearchWords(trim(StripPunctuation(FieldOr(note.fields, "Front"))))]

\* normalize of isContentSimilar: toLowerCase, then the two replace calls,
\* then trim, each applied to the result of the one before
normalize(str) ==
  CHOOSE trimmed \in
    {trim(collapsed) : collapsed \in
      {CollapseSpaces(stripped) : stripped \in
        {StripPunctuation(lower) : lower \in {toLowerCase(str)}}}} : TRUE

\* the length both normalized texts must exceed for containment to count
SimilarMinLen ==
  20

\* isContentSimilar accepting containment from 20 characters on, and only of
\* the second text in the first
isContentSimilarOneWay(content1, content2) ==
  \E norm1 \in {normalize(content1)}, norm2 \in {normalize(content2)} :
    IF norm1 = norm2 THEN TRUE
    ELSE IF Len(norm1) >= SimilarMinLen /\ Len(norm2) >= SimilarMinLen
      THEN Includes(norm1, norm2)
    ELSE FALSE

isContentSimilar(content1, content2) ==
  \E norm1 \in {normalize(content1)}, norm2 \in {normalize(content2)} :
    IF norm1 = norm2 THEN TRUE
    ELSE IF Len(norm1) > SimilarMinLen /\ Len(norm2) > SimilarMinLen
      THEN Includes(norm1, norm2) \/ Includes(norm2, norm1)
    ELSE FALSE

(***************************************************************************)
(* Inputs: the configured triggers and the questions a run may be given    *)
(***************************************************************************)

\* settings.triggers, in configured order
Triggers ==
  << <<"k","e","y"," ","p","o","i","n","t">>, <<"l","a","w">> >>

Question(type, question, answer, explanation, clozeText) ==
  [type |-> type, question |-> question, answer |-> answer,
   hasOptions |-> FALSE, options |-> <<>>,
   explanation |-> explanation, clozeText |-> clozeText]

\* The questions of the model.  1 is a trigger card as main.ts builds it (file
\* name, blank lines, trigger word); 2 is a plain question and 3 a cloze card
\* with an explanation; 4 belongs to the second trigger and has a prompt
\* without any word longer than two characters; 5 mentions no trigger; 6 and 7
\* are 2 and 3 as they read before their answer was edited.
Pool ==
  << Question("short-answer",
              <<"n",".","m","d","\n","\n","\n","k","e","y"," ","p","o","i","n","t">>,
              <<"w","h","e","e","l","s"," ","r","o","l","l">>, <<>>, <<>>),
     Question("short-answer",
              <<"k","e","y"," ","p","o","i","n","t">>,
              <<"a"," ","c","a","r">>, <<>>, <<>>),
     Question("cloze",
              <<"k","e","y"," ","p","o","i","n","t"," ","c","a","r","s"," ",
                "{","{","c","1",":",":","s","t","o","p","}","}">>,
              <<"s","t","o","p">>, <<"t","h","e","y"," ","d","o">>,
              <<"k","e","y"," ","p","o","i","n","t"," ","c","a","r","s"," ",
                "{","{","c","1",":",":","s","t","o","p","}","}">>),
     Question("short-answer",
              <<"i","t">>,
              <<"l","a","w"," ","1">>, <<>>, <<>>),
     Question("short-answer",
              <<"w","h","y">>,
              <<"s","o">>, <<>>, <<>>),
     Question("short-answer",
              <<"k","e","y"," ","p","o","i","n","t">>,
              <<"a"," ","b","u","s">>, <<>>, <<>>),
     Question("cloze",
              <<"k","e","y"," ","p","o","i","n","t"," ","c","a","r","s"," ",
                "{","{","c","1",":",":","r","o","l","l","}","}">>,
              <<"r","o","l","l">>, <<>>,
              <<"k","e","y"," ","p","o","i","n","t"," ","c","a","r","s"," ",
                "{","{","c","1",":",":","r","o","l","l","}","}">>) >>

PoolIds ==
  1..Len(Pool)

\* the questions a run may be given: the current wording of each
InputIds ==
  {c \in PoolIds : c <= Len(Pool) - 2}

\* the longest list of questions a run is given
MaxCards ==
  2

\* the most notes the store holds before the first run
MaxPre ==
  1

\* the most remote calls that fail in one behaviour
MaxFaults ==
  2

(***************************************************************************)
(* AnkiDirectExporter: routing (anki-direct-exporter.ts)                   *)
(***************************************************************************)

\* AnkiDirectExporter.extractTriggerWord: the first configured trigger the
\* content mentions, else the first the question mentions followed by a
\* colon; <<>> stands for null
extractTriggerWordIn(triggerWords, question) ==
  LET content == toLowerCase(question.question \o <<" ">> \o question.answer)
      questionLower == toLowerCase(question.question)
      first == SelectSeq(triggerWords, LAMBDA t : Includes(content, toLowerCase(t)))
      second == SelectSeq(triggerWords,
                          LAMBDA t : Includes(questionLower, toLowerCase(t) \o <<":">>))
  IN  IF first # <<>> THEN first[1]
      ELSE IF second # <<>> THEN second[1]
      ELSE <<>>

\* extractTriggerWord under the trigger words of the exporter's runs
extractTriggerWord(question) ==
  extractTriggerWordIn(Triggers, question)

\* extractTriggerWord of every question of the pool
TriggerOf ==
  [c \in PoolIds |-> extractTriggerWord(Pool[c])]

\* AnkiDirectExporter.groupQuestionsByTrigger: the buckets in the order
\* Object.entries lists them (first insertion), each with its questions in
\* input order; a question without trigger word joins no bucket
groupQuestionsByTrigger(qs) ==
  LET pos == [k \in 1..Len(qs) |-> k]
      firsts == SelectSeq(pos, LAMBDA k :
                  /\ TriggerOf[qs[k]] # <<>>
                  /\ \A m \in 1..(k - 1) : TriggerOf[qs[m]] # TriggerOf[qs[k]])
  IN  [g \in 1..Len(firsts) |->
         [triggerWord |-> TriggerOf[qs[firsts[g]]],
          questions   |-> SelectSeq(qs, LAMBDA c : TriggerOf[c] = TriggerOf[qs[firsts[g]]])]]

\* the note processQuestionGroup builds for a question of bucket triggerWord
AnkiNoteFor(c, triggerWord) ==
  convertQuestionToAnkiNote(Pool[c], triggerWord,
                            IF triggerWord = <<"o","t","h","e","r">> THEN <<>> ELSE triggerWord,
                            VaultName)

\* AnkiNoteFor of every question of the pool, in its own bucket
NoteOf ==
  [c \in {x \in PoolIds : TriggerOf[x] # <<>>} |-> AnkiNoteFor(c, TriggerOf[c])]

\* LookupQuery of the note of every question of the pool
QueryOf ==
  [c \in DOMAIN NoteOf |-> LookupQuery(NoteOf[c])]

(***************************************************************************)
(* AnkiQuizPlugin: cue extraction and card building (main.ts).  The texts  *)
(* of the model hold no carriage return, and a trigger word is made of     *)
(* letters and spaces, so that it stands for itself in a regular           *)
(* expression.                                                             *)
(***************************************************************************)

EqEq ==
  <<"=","=">>

ColonColon ==
  <<":",":">>

\* content.split('\n')
RECURSIVE SplitLines(_)
SplitLines(s) ==
  IF IndexOfFrom(s, <<"\n">>, 1) = 0 THEN <<s>>
  ELSE <<SubSeq(s, 1, IndexOfFrom(s, <<"\n">>, 1) - 1)>>
         \o SplitLines(SubSeq(s, IndexOfFrom(s, <<"\n">>, 1) + 1, Len(s)))

\* the text whose lines are ls
JoinLines(ls) ==
  Concat([k \in 1..Len(ls) |-> IF k = 1 THEN ls[k] ELSE <<"\n">> \o ls[k]])

\* the end of the match of /==(.*?)==/ that starts at p, 0 when there is none:
\* the lazy group ends at the first "==" that follows, and does not cross a
\* line break
HighlightEnd(s, p) ==
  LET closes == {q \in (p + 2)..(Len(s) - 1) :
                   /\ StartsAt(s, q, EqEq)
                   /\ \A m \in (p + 2)..(q - 1) : s[m] # "\n"}
  IN  IF StartsAt(s, p, EqEq) /\ closes # {} THEN MinOf(closes) + 1 ELSE 0

\* the successive matches of /==(.*?)==/g in s from position i on
RECURSIVE HighlightsFrom(_, _)
HighlightsFrom(s, i) ==
  LET opens == {p \in i..Len(s) : HighlightEnd(s, p) # 0}
  IN  IF opens = {} THEN <<>>
      ELSE <<SubSeq(s, MinOf(opens), HighlightEnd(s, MinOf(opens)))>>
             \o HighlightsFrom(s, HighlightEnd(s, MinOf(opens)) + 1)

\* AnkiQuizPlugin.extractHighlights
extractHighlights(text) ==
  HighlightsFrom(text, 1)

\* /^[^:\n]*::[^:\n]+$/m matches the line: the first colon of the line opens
\* a pair, at least one character follows the pair and none of them is a colon
CueRegexMatches(line) ==
  LET c == IndexOfFrom(line, <<":">>, 1)
  IN  /\ c # 0
      /\ c + 2 <= Len(line)
      /\ line[c + 1] = ":"
      /\ \A m \in (c + 2)..Len(line) : line[m] # ":"

\* AnkiQuizPlugin.extractRemNoteCues
extractRemNoteCues(text) ==
  SelectSeq(SelectSeq(SplitLines(text), CueRegexMatches),
            LAMBDA match : ~Includes(match, EqEq))

\* where the trigger word can end in the line for
\* /^(\*{1,3})?\s*(triggerWord)/i: after up to three asterisks and any
\* whitespace, letter case ignored
TriggerWordEnds(line, triggerWord) ==
  {a + s + Len(triggerWord) : a \in 0..3, s \in 0..Len(line)} \cap
  {e \in 1..Len(line) :
     \E a \in 0..3, s \in 0..Len(line) :
       /\ e = a + s + Len(triggerWord)
       /\ \A m \in 1..a : line[m] = "*"
       /\ \A m \in (a + 1)..(a + s) : IsSpace(line[m])
       /\ StartsAt(toLowerCase(line), a + s + 1, toLowerCase(triggerWord))}

\* where the separator of /(triggerWord)\s*[:.]\s*(.+)/ can stand: the first
\* character that is no whitespace after the trigger word, a colon or a full
\* stop with at least one character after it
TriggerSeparators(line, triggerWord) ==
  {x \in 1..(Len(line) - 1) :
     /\ line[x] \in {":", "."}
     /\ \E e \in TriggerWordEnds(line, triggerWord) : x = NextNonSpace(line, e + 1)}

\* group 3 of new RegExp(`^(\\*{1,3})?\\s*(${triggerWord})\\s*[:.]\\s*(.+)`, 'i')
\* on the line, <<>> when the line does not match (the group is never empty):
\* what follows the separator and the whitespace after it, or the last
\* character of the line when only whitespace follows
TriggerRegexGroup3(line, triggerWord) ==
  IF TriggerSeparators(line, triggerWord) = {} THEN <<>>
  ELSE LET x == MaxOf(TriggerSeparators(line, triggerWord))
           k == NextNonSpace(line, x + 1)
       IN  IF k <= Len(line) THEN SubSeq(line, k, Len(line))
           ELSE SubSeq(line, Len(line), Len(line))

\* new RegExp(`^(\\*{1,3})?\\s*(${triggerWord})\\s*[:.]\\s*(.+)`, 'i') compiles: the
\* word is put into the pattern as typed, so its parentheses must pair up
\* (the words of the model hold no other character special to a pattern)
RegExpCompiles(triggerWord) ==
  LET depth(n) == Cardinality({m \in 1..n : triggerWord[m] = "("})
                  - Cardinality({m \in 1..n : triggerWord[m] = ")"})
  IN  /\ \A n \in 1..Len(triggerWord) : depth(n) >= 0
      /\ depth(Len(triggerWord)) = 0

\* AnkiQuizPlugin.checkForTriggerWords: for every line, one entry, the line
\* itself, for every configured trigger word whose pattern matches it
checkForTriggerWords(text, triggerList) ==
  LET lines == SplitLines(text)
  IN  Concat([i \in 1..Len(lines) |->
                [k \in 1..Len(SelectSeq(triggerList,
                                        LAMBDA w : TriggerRegexGroup3(lines[i], w) # <<>>))
                   |-> lines[i]]])

\* group 1 of /^#{1,6}\s+(.+)$/ on a trimmed line, <<>> when it does not match
HeaderRegexGroup1(line) ==
  LET h == CHOOSE n \in 0..Len(line) :
             /\ \A m \in 1..n : line[m] = "#"
             /\ n = Len(line) \/ line[n + 1] # "#"
  IN  IF /\ h \in 1..6
         /\ h < Len(line)
         /\ IsSpace(line[h + 1])
         /\ NextNonSpace(line, h + 1) <= Len(line)
        THEN SubSeq(line, NextNonSpace(line, h + 1), Len(line))
        ELSE <<>>

\* a scan that takes the first header from the top of the document
HeaderFromTop(lines, i) ==
  LET headers == {k \in 1..i : HeaderRegexGroup1(trim(lines[k])) # <<>>}
  IN  IF headers = {} THEN <<>> ELSE HeaderRegexGroup1(trim(lines[MinOf(headers)]))

\* the loop of getMostRelevantHeader: from line i backwards, the text of the
\* first line that is a header; <<>> stands for null
RECURSIVE HeaderAbove(_, _)
HeaderAbove(lines, i) ==
  IF i < 1 THEN <<>>
  ELSE IF HeaderRegexGroup1(trim(lines[i])) # <<>>
    THEN HeaderRegexGroup1(trim(lines[i]))
  ELSE HeaderAbove(lines, i - 1)

\* AnkiQuizPlugin.getMostRelevantHeader
getMostRelevantHeader(text, targetLine) ==
  LET lines == SplitLines(text)
      hits == {i \in 1..Len(lines) : Includes(lines[i], targetLine)}
  IN  IF hits = {} THEN <<>> ELSE HeaderAbove(lines, MinOf(hits) - 1)

\* generateFilenameDisplay(file, false): `${file.basename}.md`
FileName ==
  <<"n",".","m","d">>

\* filename, then `\n-> ${relevantHeader}` when there is a header
WithHeader(prefix, header) ==
  IF header # <<>> THEN prefix \o <<"\n","-",">"," ">> \o header ELSE prefix

\* s.replace(/==/g, '')
RECURSIVE RemoveEqEq(_)
RemoveEqEq(s) ==
  IF IndexOfFrom(s, EqEq, 1) = 0 THEN s
  ELSE SubSeq(s, 1, IndexOfFrom(s, EqEq, 1) - 1)
         \o RemoveEqEq(SubSeq(s, IndexOfFrom(s, EqEq, 1) + 2, Len(s)))

\* s.replace(p, r) for a text p that occurs in s: the first occurrence is replaced
ReplaceFirst(s, p, r) ==
  SubSeq(s, 1, IndexOfFrom(s, p, 1) - 1) \o r
    \o SubSeq(s, IndexOfFrom(s, p, 1) + Len(p), Len(s))

\* match.split('::')
RECURSIVE SplitColons(_)
SplitColons(s) ==
  IF IndexOfFrom(s, ColonColon, 1) = 0 THEN <<s>>
  ELSE <<SubSeq(s, 1, IndexOfFrom(s, ColonColon, 1) - 1)>>
         \o SplitColons(SubSeq(s, IndexOfFrom(s, ColonColon, 1) + 2, Len(s)))

\* the card generateContextualClozeCards builds for a highlight found in the document
ClozeCard(text, highlight) ==
  LET lines == SplitLines(text)
      targetLine == lines[MinOf({i \in 1..Len(lines) : Includes(lines[i], highlight)})]
      cleanHighlight == RemoveEqEq(highlight)
      clozeText == ReplaceFirst(targetLine, highlight,
                                <<"{","{","c","1",":",":">> \o cleanHighlight \o <<"}","}">>)
      contextualClozeText ==
        WithHeader(FileName, getMostRelevantHeader(text, highlight))
          \o <<"\n"," ">> \o clozeText
  IN  Question("cloze", contextualClozeText, cleanHighlight, <<>>, contextualClozeText)

\* AnkiQuizPlugin.generateContextualClozeCards: a highlight that no line
\* contains is skipped
generateContextualClozeCards(text, highlights) ==
  Concat([m \in 1..Len(highlights) |->
            IF \E i \in 1..Len(SplitLines(text)) :
                 Includes(SplitLines(text)[i], highlights[m])
              THEN <<ClozeCard(text, highlights[m])>>
              ELSE <<>>])

\* the card generateContextualQACards builds for a match with two parts or more
QACard(text, match) ==
  LET parts == SplitColons(match)
  IN  Question("short-answer",
               WithHeader(FileName, getMostRelevantHeader(text, match))
                 \o <<"\n"," ">> \o trim(parts[1]),
               trim(parts[2]), <<>>, <<>>)

\* AnkiQuizPlugin.generateContextualQACards
generateContextualQACards(matches_, text) ==
  Concat([m \in 1..Len(matches_) |->
            IF Len(SplitColons(matches_[m])) >= 2
              THEN <<QACard(text, matches_[m])>>
              ELSE <<>>])

\* the card generateContextualTriggerCards builds for a match and the trigger
\* word whose pattern matches it
TriggerCard(text, match, triggerWord) ==
  Question("short-answer",
           WithHeader(FileName \o <<"\n">>, getMostRelevantHeader(text, match))
             \o <<"\n","\n">> \o triggerWord,
           trim(TriggerRegexGroup3(match, triggerWord)), <<>>, <<>>)

\* AnkiQuizPlugin.generateContextualTriggerCards: one card per match, for the
\* first configured trigger word whose pattern matches it
generateContextualTriggerCards(triggerMatches, text, triggerList) ==
  Concat([m \in 1..Len(triggerMatches) |->
            LET hits == SelectSeq(triggerList,
                                  LAMBDA w : TriggerRegexGroup3(triggerMatches[m], w) # <<>>)
            IN  IF hits # <<>>
                  THEN <<TriggerCard(text, triggerMatches[m], hits[1])>>
                  ELSE <<>>])

\* AnkiDirectExporter.groupQuestionsByTrigger over the cards themselves, under
\* the trigger words of the settings: the buckets in order of first insertion
groupCards(triggerWords, cards) ==
  LET word == [k \in 1..Len(cards) |-> extractTriggerWordIn(triggerWords, cards[k])]
      pos == [k \in 1..Len(cards) |-> k]
      firsts == SelectSeq(pos, LAMBDA k :
                  /\ word[k] # <<>>
                  /\ \A m \in 1..(k - 1) : word[m] # word[k])
  IN  [g \in 1..Len(firsts) |->
         [triggerWord |-> word[firsts[g]],
          questions   |-> [j \in 1..Len(SelectSeq(pos, LAMBDA k : word[k] = word[firsts[g]]))
                             |-> cards[SelectSeq(pos, LAMBDA k : word[k] = word[firsts[g]])[j]]]]]

\* the most lines of a document
MaxLines ==
  3

\* the most raw matches handed to a card builder with a document they were
\* not taken from
MaxBatch ==
  2

\* The lines documents are made of: headers, cue lines, trigger lines with
\* and without emphasis, a highlight.
DocLines ==
  << <<"#"," ","H">>,
     <<"#","#"," ","G">>,
     <<"a"," ",":",":"," ","b">>,
     <<":",":","b">>,
     <<"a",":",":","b",":",":","c">>,
     <<"l","a","w",":"," ","k","e","y"," ","p","o","i","n","t">>,
     <<"*","l","a","w","*",":"," ","x">>,
     <<"*","*","l","a","w","*","*",":"," ","x">>,
     <<"*","*","*","l","a","w","*","*","*",":"," ","x">>,
     <<"*","*","l","a","w",":","*","*"," ","x">>,
     <<"x"," ","=","=","y","=","=">> >>

\* the documents of at most n lines
DocumentsOf(n) ==
  {JoinLines([k \in 1..Len(f) |-> DocLines[f[k]]]) :
     f \in UNION {[1..m -> DOMAIN DocLines] : m \in 0..n}}

\* The trigger word lists of the settings: the list of the exporter's runs,
\* a list that names a word in two letter cases, and a list with a word that
\* holds an opening parenthesis (the settings tab keeps every non-blank line
\* the user types).
TriggerLists ==
  {Triggers, << <<"l","a","w">>, <<"L","a","w">> >>, << <<"l","a","w">> >>,
   << <<"l","a","w">>, <<"f","(","x">> >>}

\* raw matches of each kind, in the document or not
HighlightTexts ==
  { <<"=","=","y","=","=">>, <<"=","=","z","=","=">> }

CueTexts ==
  { <<"a"," ",":",":"," ","b">>, <<"c",":",":","d">> }

TriggerTexts ==
  { <<"l","a","w",":"," ","k","e","y"," ","p","o","i","n","t">>, <<"l","a","w",":"," ","z">> }

\* the batches of at most MaxBatch texts of S
Batches(S) ==
  UNION {[1..n -> S] : n \in 0..MaxBatch}

(***************************************************************************)
(* The remote store (Anki behind AnkiConnect) as the service sees it       *)
(***************************************************************************)

\* a note id that stands for null; the store issues ids from 1
Null ==
  0

\* the field a note type sorts and searches its notes by
FirstField(modelName) ==
  IF modelName = "Cloze" THEN "Text" ELSE "Front"

\* findNotes: the ids of the notes of the queried deck and note type whose
\* queried field contains the key, letter case ignored
StoreFindNotes(ns, q) ==
  {id \in 1..Len(ns) :
     /\ ns[id].deckName = q.deck
     /\ ns[id].modelName = q.model
     /\ q.field \in DOMAIN ns[id].fields
     /\ Includes(toLowerCase(ns[id].fields[q.field]), toLowerCase(q.words))}

\* a store that takes a note whatever notes it holds
StoreRejectionAllowingDuplicates(ns, ds, note) ==
  IF note.deckName \notin ds
    THEN "deck was not found"
  ELSE IF FieldOr(note.fields, FirstField(note.modelName)) = <<>>
    THEN "cannot create note because it is empty"
  ELSE ""

\* addNote: the error the store answers a note with, "" when it takes it
StoreRejection(ns, ds, note) ==
  IF note.deckName \notin ds
    THEN "deck was not found"
  ELSE IF FieldOr(note.fields, FirstField(note.modelName)) = <<>>
    THEN "cannot create note because it is empty"
  ELSE IF \E id \in 1..Len(ns) :
            /\ ns[id].modelName = note.modelName
            /\ FieldOr(ns[id].fields, FirstField(note.modelName))
                 = FieldOr(note.fields, FirstField(note.modelName))
    THEN "cannot create note because it is a duplicate"
  ELSE ""

\* addNotes: the store takes the notes of a batch one after the other; the
\* result pairs the notes it then holds with one entry per note of the batch,
\* the new id or Null
RECURSIVE StoreAddAll(_, _, _, _)
StoreAddAll(ns, ds, batch, ids) ==
  IF batch = <<>> THEN [notes |-> ns, ids |-> ids]
  ELSE IF StoreRejection(ns, ds, Head(batch)) = ""
    THEN StoreAddAll(Append(ns, Head(batch)), ds, Tail(batch), Append(ids, Len(ns) + 1))
    ELSE StoreAddAll(ns, ds, Tail(batch), Append(ids, Null))

\* updateNoteFields: the note with the given fields overwritten
StoreUpdate(ns, id, fields) ==
  [ns EXCEPT ![id].fields =
     [f \in DOMAIN @ |-> IF f \in DOMAIN fields THEN fields[f] ELSE @[f]]]

\* every error message of the store that names a duplicate
IsDuplicateError(error) ==
  error = "cannot create note because it is a duplicate"

(***************************************************************************)
(* State                                                                   *)
(***************************************************************************)

VARIABLES
  behavior,           \* settings.ankiConnect.existingNoteBehavior
  allowDeckCreation,  \* settings.ankiConnect.allowDeckCreation
  questions,          \* the argument of exportToAnki, as indices into Pool
  decks,              \* the store: its deck names
  notes,              \* the store: its notes, the id of a note is its index
  pc,                 \* where the run of exportToAnki stands
  result,             \* result of exportToAnki
  groups,             \* exportToAnki: groups, in the order Object.entries lists them
  gi,                 \* index of the bucket being processed
  gResult,            \* result of processQuestionGroup
  ankiNotes,          \* processQuestionGroup: ankiNotes
  queries,            \* findMatchingNotesInfo: the query of each note
  matches,            \* processQuestionGroup: matches
  lookups,            \* findMatchingNotesInfo: stage of the lookup of each note
  firstFound,         \* findMatchingNotesInfo: foundNotes[0] of each note
  loopIdx,            \* processQuestionGroup: i
  notesToCreate,      \* processQuestionGroup: notesToCreate, as indices into ankiNotes
  updatedCount,       \* processQuestionGroup: updatedCount
  skippedCount,       \* processQuestionGroup: skippedCount
  addResults,         \* addNotes: results of the one-by-one fallback
  orphans,            \* lookups still in flight after Promise.all rejected
  log,                \* the remote calls of the current run, in order
  faults,             \* remote calls that may still fail
  runsLeft,           \* runs of exportToAnki still to start
  reports,            \* the results the finished runs returned
  updated,            \* for each run so far, the questions updateNoteFields was called for
  content1,           \* isContentSimilar: the first text
  content2,           \* isContentSimilar: the second text
  similar,            \* what isContentSimilar(content1, content2) returned, once called
  similarSwapped,     \* what isContentSimilar(content2, content1) returned, once called
  deckResults,        \* aggregation: what processQuestionGroup returns for each bucket
  order,              \* aggregation: the buckets processed so far, in processing order
  total,              \* aggregation: the result exportToAnki has accumulated
  geminiApiKey,       \* settings.geminiApiKey
  genAI,              \* GeminiService.genAI is set (not null)
  enhanceInput,       \* the questions the last call of enhanceAllCards was given
  response,           \* what generateContent answers the call with
  enhanceOutput,      \* what the calls of enhanceAllCards came to, newest last
  other,              \* a second run of exportToAnki on the same questions: where it stands
  triggers,           \* settings.triggers as configured when a document is processed
  content,            \* the text of the document being processed
  step,               \* where the processing of the document stands
  highlightMatches,   \* the highlights handed to generateContextualClozeCards
  remNoteMatches,     \* the cue lines handed to generateContextualQACards
  triggerWordMatches, \* the trigger lines handed to generateContextualTriggerCards
  clozeQuestions,     \* result of generateContextualClozeCards
  qaQuestions,        \* result of generateContextualQACards
  triggerQuestions,   \* result of generateContextualTriggerCards
  cardGroups          \* groupQuestionsByTrigger of the cards of the document

\* the state of the export
exportVars ==
  <<behavior, allowDeckCreation, questions, decks, notes, pc, result, groups, gi,
    gResult, ankiNotes, queries, matches, lookups, firstFound, loopIdx, notesToCreate,
    updatedCount, skippedCount, addResults, orphans, log, faults, runsLeft,
    reports, updated>>

\* the state of the processing of a document
docVars ==
  <<triggers, content, step, highlightMatches, remNoteMatches, triggerWordMatches,
    clozeQuestions, qaQuestions, triggerQuestions, cardGroups>>

\* the state of isContentSimilar applied on its own
similarVars ==
  <<content1, content2, similar, similarSwapped>>

\* the state of the accumulation loop of exportToAnki applied on its own
aggregateVars ==
  <<deckResults, order, total>>

\* the state of GeminiService.enhanceAllCards applied on its own
enhanceVars ==
  <<geminiApiKey, genAI, enhanceInput, response, enhanceOutput>>

\* the state of the operations that are applied on their own, and of a second
\* run of exportToAnki
unitVars ==
  <<similarVars, aggregateVars, enhanceVars, other>>

vars ==
  <<exportVars, docVars, unitVars>>

settingsVars ==
  <<behavior, allowDeckCreation, questions>>

groupVars ==
  <<gResult, ankiNotes, queries, matches, lookups, firstFound, loopIdx, notesToCreate,
    updatedCount, skippedCount, addResults>>

EmptyResult ==
  [success |-> 0, failed |-> 0, skipped |-> 0, errors |-> <<>>, decksCreated |-> <<>>]

\* an entry of errors: the fixed text, the deck and the interpolated value
\* (a note id, or the question whose prefix the message quotes; 0 for none)
ErrorEntry(msg, deck, arg) ==
  [msg |-> msg, deck |-> deck, arg |-> arg]

\* a remote call: the action of the request, the deck it concerns, a number
\* (the note id of an update, the position in ankiNotes of a looked-up or
\* singly added note, the size of a batch) and the field map of an update
Call(op, deck, arg, fields) ==
  [op |-> op, deck |-> deck, arg |-> arg, fields |-> fields]

NoFields ==
  [f \in {} |-> <<>>]

NoMatch ==
  [noteId |-> Null, existingFields |-> NoFields]

\* processQuestionGroup: questions and deckName of the bucket
GroupQuestions ==
  groups[gi].questions

deckName ==
  groups[gi].triggerWord

\* settings.ankiConnect.existingNoteBehavior || 'skip'
Behavior ==
  IF behavior = "undefined" THEN "skip" ELSE behavior

\* the outcomes a remote call can have: the store answers, the request fails
\* (sendRequest throws), or the store answers with an error of its own
Outcomes ==
  IF faults > 0 THEN {"ok", "neterr", "apierr"} ELSE {"ok"}

Spend(o) ==
  faults' = IF o = "ok" THEN faults ELSE faults - 1

\* no document is being processed
\* isContentSimilar is not applied on its own
NoSimilarity ==
  /\ content1 = <<>>
  /\ content2 = <<>>
  /\ similar = <<>>
  /\ similarSwapped = <<>>

\* no operation is applied on its own
\* the accumulation loop is not applied on its own
NoAggregation ==
  /\ deckResults = <<>>
  /\ order = <<>>
  /\ total = EmptyResult

\* an answer of generateContent: the call is rejected, or resolves to a text
Response(ok, text) ==
  [ok |-> ok, text |-> text]

\* enhanceAllCards is not applied on its own
NoEnhancement ==
  /\ geminiApiKey = <<>>
  /\ genAI = FALSE
  /\ enhanceInput = <<>>
  /\ response = Response(FALSE, <<>>)
  /\ enhanceOutput = <<>>

\* a second run that has returned, or was never started
OtherDone ==
  [stage |-> "done", gi |-> 0, found |-> <<>>, next |-> 0, rejected |-> 0]

NoUnit ==
  /\ NoSimilarity
  /\ NoAggregation
  /\ NoEnhancement
  /\ other = OtherDone

NoDocument ==
  /\ triggers = Triggers
  /\ content = <<>>
  /\ step = "none"
  /\ highlightMatches = <<>>
  /\ remNoteMatches = <<>>
  /\ triggerWordMatches = <<>>
  /\ clozeQuestions = <<>>
  /\ qaQuestions = <<>>
  /\ triggerQuestions = <<>>
  /\ cardGroups = <<>>

\* the stores a first run can meet: no note, or notes earlier exports of
\* questions of the pool left behind, each in an existing deck
PreStores ==
  {ps \in UNION {[1..n -> DOMAIN NoteOf] : n \in 0..MaxPre} :
     \A a, b \in DOMAIN ps : a < b => ps[a] < ps[b]}

QuestionLists ==
  UNION {[1..n -> InputIds] : n \in 0..MaxCards}

\* the states exportToAnki can first be called in, with f remote calls that
\* may fail and r runs to come
InitWith(f, r) ==
  /\ behavior \in {"skip", "update", "create", "undefined"}
  /\ allowDeckCreation \in BOOLEAN
  /\ questions \in QuestionLists
  /\ \E ps \in PreStores :
       /\ notes = [k \in DOMAIN ps |-> NoteOf[ps[k]]]
       /\ decks \in {ds \in SUBSET {Triggers[t] : t \in DOMAIN Triggers} :
                       \A k \in DOMAIN ps : NoteOf[ps[k]].deckName \in ds}
  /\ pc = "idle"
  /\ result = EmptyResult
  /\ groups = <<>>
  /\ gi = 0
  /\ gResult = EmptyResult
  /\ ankiNotes = <<>>
  /\ queries = <<>>
  /\ matches = <<>>
  /\ lookups = <<>>
  /\ firstFound = <<>>
  /\ loopIdx = 0
  /\ notesToCreate = <<>>
  /\ updatedCount = 0
  /\ skippedCount = 0
  /\ addResults = <<>>
  /\ orphans = <<>>
  /\ log = <<>>
  /\ faults = f
  /\ runsLeft = r
  /\ reports = <<>>
  /\ updated = <<>>
  /\ NoDocument
  /\ NoUnit

Init ==
  InitWith(MaxFaults, 1)

(***************************************************************************)
(* AnkiDirectExporter.exportToAnki and processQuestionGroup, one action    *)
(* per remote call or loop iteration                                       *)
(***************************************************************************)

\* exportToAnki returns res
Return(res) ==
  /\ pc' = "idle"
  /\ reports' = Append(reports, res)

\* exportToAnki with a catch block that throws the error on to its caller
exportToAnkiRethrow(res, message) ==
  /\ result' = [res EXCEPT !.errors = Append(@, ErrorEntry(message, <<>>, 0)),
                           !.failed = Len(questions)]
  /\ pc' = "rejected"
  /\ UNCHANGED reports

\* the catch block of exportToAnki: the message is recorded, every question
\* counts as failed and the result is returned; nothing is thrown on, which
\* would leave the run at "rejected"
exportToAnkiCatch(res, message) ==
  /\ result' = [res EXCEPT !.errors = Append(@, ErrorEntry(message, <<>>, 0)),
                           !.failed = Len(questions)]
  /\ Return(result')

ResetGroup ==
  /\ gResult' = EmptyResult
  /\ ankiNotes' = <<>>
  /\ queries' = <<>>
  /\ matches' = <<>>
  /\ lookups' = <<>>
  /\ firstFound' = <<>>
  /\ loopIdx' = 0
  /\ notesToCreate' = <<>>
  /\ updatedCount' = 0
  /\ skippedCount' = 0
  /\ addResults' = <<>>

\* an accumulation in which the counts and decks of a bucket replace the
\* earlier ones
AccumulateOverwriting(res, deckResult) ==
  [success      |-> deckResult.success,
   failed       |-> deckResult.failed,
   skipped      |-> deckResult.skipped,
   errors       |-> res.errors \o deckResult.errors,
   decksCreated |-> deckResult.decksCreated]

\* an accumulation that puts the messages of the bucket before the earlier ones
AccumulateNewestFirst(res, deckResult) ==
  [success      |-> res.success + deckResult.success,
   failed       |-> res.failed + deckResult.failed,
   skipped      |-> res.skipped + deckResult.skipped,
   errors       |-> deckResult.errors \o res.errors,
   decksCreated |-> res.decksCreated \o deckResult.decksCreated]

\* the result exportToAnki holds after accumulating deckResult
Accumulate(res, deckResult) ==
  [success      |-> res.success + deckResult.success,
   failed       |-> res.failed + deckResult.failed,
   skipped      |-> res.skipped + deckResult.skipped,
   errors       |-> res.errors \o deckResult.errors,
   decksCreated |-> res.decksCreated \o deckResult.decksCreated]

\* processQuestionGroup returns deckResult: exportToAnki accumulates it and
\* goes on to the next bucket, or shows the summary and returns
EndGroup(deckResult) ==
  /\ result' = Accumulate(result, deckResult)
  /\ ResetGroup
  /\ IF gi < Len(groups)
       THEN /\ gi' = gi + 1
            /\ pc' = "deckNames"
            /\ UNCHANGED reports
       ELSE /\ gi' = 0
            /\ Return(result')

\* a catch block of processQuestionGroup that counts one failure for the bucket
processQuestionGroupCatchOnce(res, message) ==
  [res EXCEPT !.failed = @ + 1,
              !.errors = Append(@, ErrorEntry(message, deckName, 0))]

\* the catch block of processQuestionGroup: every question of the bucket
\* counts as failed, with one message
processQuestionGroupCatch(res, message) ==
  [res EXCEPT !.failed = @ + Len(GroupQuestions),
              !.errors = Append(@, ErrorEntry(message, deckName, 0))]

\* exportToAnki is called
Export ==
  /\ pc = "idle"
  /\ runsLeft > 0
  /\ runsLeft' = runsLeft - 1
  /\ pc' = "probe"
  /\ result' = EmptyResult
  /\ groups' = <<>>
  /\ log' = <<>>
  /\ updated' = Append(updated, {})
  /\ UNCHANGED <<unitVars, docVars, settingsVars, decks, notes, gi, groupVars, orphans, faults, reports>>

\* testConnection that looks at the transport only, not at the error of the answer
testConnectionAnyAnswer(o) ==
  o # "neterr"

\* testConnection: true exactly when the version request is answered without
\* error
testConnection(o) ==
  o = "ok"

\* exportToAnki: the connectivity probe, then the grouping
TestConnection ==
  /\ pc = "probe"
  /\ \E o \in Outcomes :
       /\ Spend(o)
       /\ log' = Append(log, Call("version", <<>>, 0, NoFields))
       /\ IF ~testConnection(o)
            THEN /\ exportToAnkiCatch(result, "AnkiConnect is not available")
                 /\ UNCHANGED <<groups, gi>>
            ELSE /\ groups' = groupQuestionsByTrigger(questions)
                 /\ IF groups' = <<>>
                      THEN /\ Return(result)
                           /\ UNCHANGED <<result, gi>>
                      ELSE /\ pc' = "deckNames"
                           /\ gi' = 1
                           /\ UNCHANGED <<result, reports>>
  /\ UNCHANGED <<unitVars, docVars, settingsVars, updated, decks, notes, groupVars, orphans, runsLeft>>

\* getDeckNames: the deck names of the store, none when the request fails
getDeckNames(o) ==
  IF o = "ok" THEN decks ELSE {}

\* processQuestionGroup converts the questions of the bucket, and
\* findMatchingNotesInfo starts: every note with a non-empty query sends its
\* findNotes request, the others are settled without a match
StartLookups ==
  /\ ankiNotes' = [k \in 1..Len(GroupQuestions) |-> NoteOf[GroupQuestions[k]]]
  /\ queries' = [k \in 1..Len(GroupQuestions) |-> QueryOf[GroupQuestions[k]]]
  /\ matches' = [k \in DOMAIN queries' |-> NoMatch]
  /\ firstFound' = [k \in DOMAIN queries' |-> Null]
  /\ lookups' = [k \in DOMAIN queries' |->
                   IF queries'[k].words = <<>> THEN "done" ELSE "find"]
  /\ loopIdx' = 1
  /\ pc' = IF \A k \in DOMAIN queries' : queries'[k].words = <<>>
             THEN "loop" ELSE "lookup"

\* the findNotes requests findMatchingNotesInfo sends, all at once and in the
\* order of the notes, before it waits for any answer
FindRequests ==
  LET sent == SelectSeq([k \in 1..Len(GroupQuestions) |-> k],
                        LAMBDA k : QueryOf[GroupQuestions[k]].words # <<>>)
  IN  [m \in 1..Len(sent) |-> Call("findNotes", deckName, sent[m], NoFields)]

\* ensureDeckExists, first half: the deck names are fetched
GetDeckNames ==
  /\ pc = "deckNames"
  /\ \E o \in Outcomes :
       /\ Spend(o)
       /\ log' = Append(log, Call("deckNames", deckName, 0, NoFields))
                     \o (IF deckName \in getDeckNames(o) THEN FindRequests ELSE <<>>)
       /\ IF deckName \in getDeckNames(o)
            THEN /\ StartLookups
                 /\ UNCHANGED <<result, gi, reports, gResult, notesToCreate,
                                updatedCount, skippedCount, addResults>>
            ELSE IF allowDeckCreation
              THEN /\ pc' = "createDeck"
                   /\ UNCHANGED <<result, gi, reports, groupVars>>
              ELSE EndGroup(processQuestionGroupCatch(gResult,
                              "does not exist and deck creation is disabled"))
  /\ UNCHANGED <<unitVars, docVars, settingsVars, updated, groups, decks, notes, orphans, runsLeft>>

\* createDeck: true exactly when the request is answered without error
createDeck(o) ==
  o = "ok"

\* ensureDeckExists, second half: the absent deck is created
CreateDeck ==
  /\ pc = "createDeck"
  /\ \E o \in Outcomes :
       /\ Spend(o)
       /\ log' = Append(log, Call("createDeck", deckName, 0, NoFields))
                     \o (IF createDeck(o) THEN FindRequests ELSE <<>>)
       /\ IF createDeck(o)
            THEN /\ decks' = decks \cup {deckName}
                 /\ gResult' = [gResult EXCEPT !.decksCreated = Append(@, deckName)]
                 /\ StartLookups
                 /\ UNCHANGED <<result, gi, reports, notesToCreate,
                                updatedCount, skippedCount, addResults>>
            ELSE /\ EndGroup(processQuestionGroupCatch(gResult, "Failed to create deck"))
                 /\ UNCHANGED decks
  /\ UNCHANGED <<unitVars, docVars, settingsVars, updated, groups, notes, orphans, runsLeft>>

\* Promise.all rejects because the lookup of note k threw: the catch block of
\* findMatchingNotesInfo answers no match for every note, and the lookups of
\* the other notes stay in flight with nobody waiting for them
RejectLookups(k) ==
  /\ matches' = [j \in DOMAIN matches |-> NoMatch]
  /\ lookups' = [j \in DOMAIN lookups |-> "done"]
  /\ orphans' = orphans \o
       SelectSeq([j \in DOMAIN lookups |->
                    [stage |-> IF j = k THEN "done" ELSE lookups[j],
                     deck |-> deckName,
                     query |-> queries[j]]],
                 LAMBDA x : x.stage # "done")
  /\ pc' = "loop"
  /\ UNCHANGED firstFound

\* the lookup of note k ends with match m; Promise.all resolves with the last
SettleLookup(k, m) ==
  /\ matches' = [matches EXCEPT ![k] = m]
  /\ lookups' = [lookups EXCEPT ![k] = "done"]
  /\ pc' = IF \A j \in DOMAIN lookups : j = k \/ lookups[j] = "done"
             THEN "loop" ELSE "lookup"
  /\ UNCHANGED <<firstFound, orphans>>

\* findMatchingNotesInfo: the findNotes request of note k is answered; when
\* notes were found, the notesInfo request follows
FindNotes(k) ==
  /\ pc = "lookup"
  /\ k \in DOMAIN lookups
  /\ lookups[k] = "find"
  /\ \E o \in Outcomes :
       /\ Spend(o)
       /\ IF o = "neterr"
            THEN RejectLookups(k) /\ UNCHANGED log
          ELSE IF o = "apierr" \/ StoreFindNotes(notes, queries[k]) = {}
            THEN SettleLookup(k, NoMatch) /\ UNCHANGED log
          ELSE \E f \in StoreFindNotes(notes, queries[k]) :
                 /\ firstFound' = [firstFound EXCEPT ![k] = f]
                 /\ lookups' = [lookups EXCEPT ![k] = "info"]
                 /\ log' = Append(log, Call("notesInfo", deckName, k, NoFields))
                 /\ UNCHANGED <<matches, orphans, pc>>
  /\ UNCHANGED <<unitVars, docVars, settingsVars, updated, groups, decks, notes, result, gi, gResult, ankiNotes, queries, loopIdx,
                 notesToCreate, updatedCount, skippedCount, addResults,
                 runsLeft, reports>>

\* the fields findMatchingNotesInfo copies from the first note of notesInfo
ExistingFields(note, existingNote) ==
  IF note.modelName = "Cloze"
    THEN [Text |-> FieldOr(existingNote.fields, "Text")]
    ELSE [Front |-> FieldOr(existingNote.fields, "Front"),
          Back  |-> FieldOr(existingNote.fields, "Back")]

\* findMatchingNotesInfo: the notesInfo request of note k is answered
NotesInfo(k) ==
  /\ pc = "lookup"
  /\ k \in DOMAIN lookups
  /\ lookups[k] = "info"
  /\ \E o \in Outcomes :
       /\ Spend(o)
       /\ UNCHANGED log
       /\ IF o = "neterr" THEN RejectLookups(k)
          ELSE IF o = "apierr" THEN SettleLookup(k, NoMatch)
          ELSE SettleLookup(k, [noteId |-> firstFound[k],
                                existingFields |->
                                  ExistingFields(ankiNotes[k], notes[firstFound[k]])])
  /\ UNCHANGED <<unitVars, docVars, settingsVars, updated, groups, decks, notes, result, gi, gResult, ankiNotes, queries, loopIdx,
                 notesToCreate, updatedCount, skippedCount, addResults,
                 runsLeft, reports>>

\* seq without its n-th element
RemoveAt(seq, n) ==
  SubSeq(seq, 1, n - 1) \o SubSeq(seq, n + 1, Len(seq))

\* a lookup nobody waits for goes on: its findNotes answer may be followed by
\* a notesInfo request, whose answer is dropped
OrphanLookup(n) ==
  /\ n \in DOMAIN orphans
  /\ \E o \in Outcomes :
       /\ Spend(o)
       /\ log' = IF /\ orphans[n].stage = "find"
                    /\ o = "ok"
                    /\ StoreFindNotes(notes, orphans[n].query) # {}
                   THEN Append(log, Call("notesInfo", orphans[n].deck, 0, NoFields))
                   ELSE log
       /\ orphans' = IF /\ orphans[n].stage = "find"
                        /\ o = "ok"
                        /\ StoreFindNotes(notes, orphans[n].query) # {}
                       THEN [orphans EXCEPT ![n].stage = "info"]
                       ELSE RemoveAt(orphans, n)
  /\ UNCHANGED <<unitVars, docVars, settingsVars, updated, groups, decks, notes, pc, result, gi, groupVars,
                 runsLeft, reports>>

\* the differs decision of processQuestionGroup
Differs(note, existing) ==
  IF note.modelName = "Cloze"
    THEN ~isContentSimilar(FieldOr(existing, "Text"), FieldOr(note.fields, "Text"))
    ELSE \/ ~isContentSimilar(FieldOr(existing, "Front"), FieldOr(note.fields, "Front"))
         \/ ~isContentSimilar(FieldOr(existing, "Back"), FieldOr(note.fields, "Back"))

\* the iteration for note i ends in a call of updateNoteFields
NeedsUpdate(i) ==
  /\ matches[i].noteId # Null
  /\ Behavior = "update"
  /\ Differs(ankiNotes[i], matches[i].existingFields)

\* a loop that counts every matched note as skipped, whatever the policy
IsSkippedUnderAnyPolicy(i) ==
  /\ matches[i].noteId # Null
  /\ IF Differs(ankiNotes[i], matches[i].existingFields)
       THEN Behavior \in {"skip", "create"}
       ELSE TRUE

\* the iteration for note i counts the note as skipped
IsSkipped(i) ==
  /\ matches[i].noteId # Null
  /\ Behavior # "create"
  /\ IF Differs(ankiNotes[i], matches[i].existingFields)
       THEN Behavior = "skip"
       ELSE Behavior \in {"skip", "update"}

\* a loop that also creates the matched notes whose content differs
IsQueuedWhenChanged(i) ==
  \/ matches[i].noteId = Null
  \/ Behavior = "create"
  \/ Differs(ankiNotes[i], matches[i].existingFields)

\* the iteration for note i schedules the note for creation
IsQueued(i) ==
  \/ matches[i].noteId = Null
  \/ Behavior = "create"

NextIteration ==
  /\ loopIdx' = loopIdx + 1
  /\ pc' = IF loopIdx = Len(ankiNotes) THEN "add" ELSE "loop"

\* processQuestionGroup: an iteration of the loop that calls nothing remote
Classify ==
  /\ pc = "loop"
  /\ loopIdx <= Len(ankiNotes)
  /\ ~NeedsUpdate(loopIdx)
  /\ notesToCreate' = IF IsQueued(loopIdx) THEN Append(notesToCreate, loopIdx)
                      ELSE notesToCreate
  /\ skippedCount' = IF IsSkipped(loopIdx) THEN skippedCount + 1 ELSE skippedCount
  /\ NextIteration
  /\ UNCHANGED <<unitVars, docVars, settingsVars, updated, groups, decks, notes, result, gi, gResult, ankiNotes,
                 queries, matches, lookups, firstFound, updatedCount, addResults, orphans, log,
                 faults, runsLeft, reports>>

\* an update that sends every field of the new note
FieldsToUpdateAll(note) ==
  note.fields

\* the fields processQuestionGroup sends to updateNoteFields
FieldsToUpdate(note) ==
  IF note.modelName = "Cloze"
    THEN [Extra |-> FieldOr(note.fields, "Extra")]
    ELSE [Back |-> FieldOr(note.fields, "Back")]

\* updateNoteFields: true exactly when the request is answered without error
updateNoteFields(o) ==
  o = "ok"

\* processQuestionGroup: an iteration of the loop that updates the matching note
UpdateExisting ==
  /\ pc = "loop"
  /\ loopIdx <= Len(ankiNotes)
  /\ NeedsUpdate(loopIdx)
  /\ \E o \in Outcomes :
       /\ Spend(o)
       /\ log' = Append(log, Call("updateNoteFields", deckName, matches[loopIdx].noteId,
                                  FieldsToUpdate(ankiNotes[loopIdx])))
       /\ IF updateNoteFields(o)
            THEN /\ notes' = StoreUpdate(notes, matches[loopIdx].noteId,
                                         FieldsToUpdate(ankiNotes[loopIdx]))
                 /\ updatedCount' = updatedCount + 1
                 /\ UNCHANGED gResult
            ELSE /\ gResult' = [gResult EXCEPT
                      !.failed = @ + 1,
                      !.errors = Append(@, ErrorEntry("Failed to update note", deckName,
                                                      matches[loopIdx].noteId))]
                 /\ UNCHANGED <<notes, updatedCount>>
  /\ updated' = [updated EXCEPT ![Len(updated)] = @ \cup {GroupQuestions[loopIdx]}]
  /\ NextIteration
  /\ UNCHANGED <<unitVars, docVars, settingsVars, groups, decks, result, gi, ankiNotes, queries, matches,
                 lookups, firstFound, notesToCreate, skippedCount, addResults,
                 orphans, runsLeft, reports>>

\* a tally that leaves the updated notes out
TalliedSkippedOnly(res) ==
  [res EXCEPT !.skipped = @ + skippedCount]

\* processQuestionGroup after the loop: the skipped and updated notes enter
\* the result of the bucket
Tallied(res) ==
  [res EXCEPT !.skipped = @ + skippedCount, !.success = @ + updatedCount]

\* the notes processQuestionGroup hands to addNotes
Batch ==
  [j \in 1..Len(notesToCreate) |-> ankiNotes[notesToCreate[j]]]

\* a forEach that counts every entry of addResults as success
CountAddedAll(res, ids) ==
  [res EXCEPT !.success = @ + Len(ids)]

\* addResults.forEach of processQuestionGroup: a null entry counts as failed,
\* with a message that quotes questions[idx], any other entry as success
CountAdded(res, ids) ==
  LET nulls == SelectSeq([j \in 1..Len(ids) |-> j], LAMBDA j : ids[j] = Null)
  IN  [res EXCEPT
         !.failed  = @ + Len(nulls),
         !.success = @ + (Len(ids) - Len(nulls)),
         !.errors  = @ \o [m \in 1..Len(nulls) |->
                             ErrorEntry("Failed to add card in", deckName,
                                        GroupQuestions[nulls[m]])]]

\* addNotes falls back to adding the notes one by one
StartFallback ==
  /\ pc' = "fallback"
  /\ gResult' = Tallied(gResult)
  /\ addResults' = <<>>
  /\ UNCHANGED <<notes, result, gi, reports, ankiNotes, queries, matches, lookups,
                 firstFound, loopIdx, notesToCreate, updatedCount, skippedCount>>

\* processQuestionGroup after the loop, and the bulk request of addNotes.  A
\* store that rejects a note of the batch answers, depending on its version,
\* with an error for the whole batch and no note added, or with a null entry
\* for that note.
AddNotes ==
  /\ pc = "add"
  /\ IF notesToCreate = <<>>
       THEN /\ EndGroup(Tallied(gResult))
            /\ UNCHANGED <<notes, log, faults>>
       ELSE \E o \in Outcomes :
              /\ Spend(o)
              /\ log' = Append(log, Call("addNotes", deckName, Len(Batch), NoFields))
              /\ \E added \in {StoreAddAll(notes, decks, Batch, <<>>)} :
                   \/ /\ o # "ok"
                      /\ StartFallback
                   \/ /\ o = "ok"
                      /\ \E j \in DOMAIN added.ids : added.ids[j] = Null
                      /\ StartFallback
                   \/ /\ o = "ok"
                      /\ notes' = added.notes
                      /\ EndGroup(CountAdded(Tallied(gResult), added.ids))
  /\ UNCHANGED <<unitVars, docVars, settingsVars, updated, groups, decks, orphans, runsLeft>>

\* the entry the fallback of addNotes pushes for a note: the new id, or null
\* when the request fails, the store calls the note a duplicate, or the store
\* answers any other error (thrown and caught on the spot)
FallbackEntry(o, rejection, newId) ==
  IF o # "ok" THEN Null
  ELSE IF rejection # "" THEN (IF IsDuplicateError(rejection) THEN Null ELSE Null)
  ELSE newId

\* addNotes, fallback: the next note of the batch is sent on its own
AddNoteFallback ==
  /\ pc = "fallback"
  /\ \E j \in {Len(addResults) + 1}, o \in Outcomes :
       /\ Spend(o)
       /\ log' = Append(log, Call("addNote", deckName, notesToCreate[j], NoFields))
       /\ \E rejection \in {StoreRejection(notes, decks, Batch[j])} :
            \E results \in {Append(addResults,
                                   FallbackEntry(o, rejection, Len(notes) + 1))} :
              /\ notes' = IF o = "ok" /\ rejection = ""
                             THEN Append(notes, Batch[j]) ELSE notes
              /\ IF j = Len(notesToCreate)
                   THEN EndGroup(CountAdded(gResult, results))
                   ELSE /\ addResults' = results
                        /\ UNCHANGED <<pc, result, gi, reports, gResult, ankiNotes,
                                       queries, matches, lookups, firstFound, loopIdx,
                                       notesToCreate, updatedCount, skippedCount>>
  /\ UNCHANGED <<unitVars, docVars, settingsVars, updated, groups, decks, orphans, runsLeft>>

Next ==
  \/ Export
  \/ TestConnection
  \/ GetDeckNames
  \/ CreateDeck
  \/ \E k \in 1..MaxCards : FindNotes(k)
  \/ \E k \in 1..MaxCards : NotesInfo(k)
  \/ \E n \in 1..MaxCards : OrphanLookup(n)
  \/ Classify
  \/ UpdateExisting
  \/ AddNotes
  \/ AddNoteFallback

Spec ==
  Init /\ [][Next]_vars

\* Every request is answered or fails, and the event loop then runs the code
\* that waits for it: a run that can take a step takes one.
FairSpec ==
  Init /\ [][Next]_vars /\ WF_vars(Next)

\* Two runs in a row over a store that answers every request: no request
\* fails, so no lookup is ever abandoned
InitRerun ==
  InitWith(0, 2)

NextRerun ==
  \/ Export
  \/ TestConnection
  \/ GetDeckNames
  \/ CreateDeck
  \/ \E k \in 1..MaxCards : FindNotes(k)
  \/ \E k \in 1..MaxCards : NotesInfo(k)
  \/ Classify
  \/ UpdateExisting
  \/ AddNotes
  \/ AddNoteFallback

SpecRerun ==
  InitRerun /\ [][NextRerun]_vars

(***************************************************************************)
(* Two overlapping runs of exportToAnki on the same questions, under policy *)
(* skip and with the decks in place: the run above, and a second one that   *)
(* sends the same requests, taken one answered request at a time.  No       *)
(* request fails.                                                           *)
(***************************************************************************)

\* the second run at the start of bucket g of its questions, or past the last
OtherAt(g, rejected) ==
  IF g > Len(groupQuestionsByTrigger(questions))
    THEN [OtherDone EXCEPT !.rejected = rejected]
    ELSE [stage    |-> "lookup",
          gi       |-> g,
          found    |-> [k \in 1..Len(groupQuestionsByTrigger(questions)[g].questions) |-> "pending"],
          next     |-> 0,
          rejected |-> rejected]

\* the notes the second run hands to addNotes for its bucket: those without
\* a match
OtherBatch ==
  LET cards == groupQuestionsByTrigger(questions)[other.gi].questions
      queued == SelectSeq([k \in 1..Len(cards) |-> k], LAMBDA k : other.found[k] = "no")
  IN  [j \in 1..Len(queued) |-> NoteOf[cards[queued[j]]]]

\* both runs are started on an empty store that has every deck
InitOverlap ==
  /\ behavior \in {"skip", "undefined"}
  /\ allowDeckCreation \in BOOLEAN
  /\ questions \in QuestionLists
  /\ notes = <<>>
  /\ decks = {Triggers[t] : t \in DOMAIN Triggers}
  /\ pc = "idle"
  /\ result = EmptyResult
  /\ groups = <<>>
  /\ gi = 0
  /\ gResult = EmptyResult
  /\ ankiNotes = <<>>
  /\ queries = <<>>
  /\ matches = <<>>
  /\ lookups = <<>>
  /\ firstFound = <<>>
  /\ loopIdx = 0
  /\ notesToCreate = <<>>
  /\ updatedCount = 0
  /\ skippedCount = 0
  /\ addResults = <<>>
  /\ orphans = <<>>
  /\ log = <<>>
  /\ faults = 0
  /\ runsLeft = 1
  /\ reports = <<>>
  /\ updated = <<>>
  /\ NoDocument
  /\ NoSimilarity
  /\ NoAggregation
  /\ NoEnhancement
  /\ other = OtherAt(1, 0)

\* findMatchingNotesInfo of the second run: the lookup of note k is answered
OtherFindNotes(k) ==
  /\ other.stage = "lookup"
  /\ k \in DOMAIN other.found
  /\ other.found[k] = "pending"
  /\ \E q \in {QueryOf[groupQuestionsByTrigger(questions)[other.gi].questions[k]]} :
       \E found \in {[other.found EXCEPT ![k] =
                        IF q.words # <<>> /\ StoreFindNotes(notes, q) # {}
                          THEN "yes" ELSE "no"]} :
         other' = [other EXCEPT
                     !.found = found,
                     !.stage = IF \A j \in DOMAIN found : found[j] # "pending"
                                 THEN "add" ELSE "lookup"]
  /\ UNCHANGED <<exportVars, docVars, similarVars, aggregateVars, enhanceVars>>

\* the second run after its loop, and its addNotes request
OtherAddNotes ==
  /\ other.stage = "add"
  /\ IF OtherBatch = <<>>
       THEN /\ other' = OtherAt(other.gi + 1, other.rejected)
            /\ UNCHANGED notes
       ELSE \E added \in {StoreAddAll(notes, decks, OtherBatch, <<>>)} :
              \E nulls \in {Cardinality({j \in DOMAIN added.ids : added.ids[j] = Null})} :
                \/ /\ nulls > 0
                   /\ other' = [other EXCEPT !.stage = "fallback", !.next = 1]
                   /\ UNCHANGED notes
                \/ /\ notes' = added.notes
                   /\ other' = OtherAt(other.gi + 1, other.rejected + nulls)
  /\ UNCHANGED <<docVars, settingsVars, groupVars, similarVars, aggregateVars, enhanceVars,
                 decks, pc, result, groups, gi, orphans, log, faults, runsLeft, reports,
                 updated>>

\* the fallback of the second run: the next note of its batch is sent alone
OtherAddNote ==
  /\ other.stage = "fallback"
  /\ \E rejection \in {StoreRejection(notes, decks, OtherBatch[other.next])} :
       /\ notes' = IF rejection = "" THEN Append(notes, OtherBatch[other.next]) ELSE notes
       /\ \E rejected \in {other.rejected + (IF rejection = "" THEN 0 ELSE 1)} :
            other' = IF other.next = Len(OtherBatch)
                       THEN OtherAt(other.gi + 1, rejected)
                       ELSE [other EXCEPT !.next = @ + 1, !.rejected = rejected]
  /\ UNCHANGED <<docVars, settingsVars, groupVars, similarVars, aggregateVars, enhanceVars,
                 decks, pc, result, groups, gi, orphans, log, faults, runsLeft, reports,
                 updated>>

NextOverlap ==
  \/ Export
  \/ TestConnection
  \/ GetDeckNames
  \/ \E k \in 1..MaxCards : FindNotes(k)
  \/ \E k \in 1..MaxCards : NotesInfo(k)
  \/ Classify
  \/ AddNotes
  \/ AddNoteFallback
  \/ \E k \in 1..MaxCards : OtherFindNotes(k)
  \/ OtherAddNotes
  \/ OtherAddNote

SpecOverlap ==
  InitOverlap /\ [][NextOverlap]_vars

(***************************************************************************)
(* AnkiQuizPlugin.processFilesByPathAllTypes, the body of its loop for one *)
(* file, one action per statement, and the grouping exportToAnki then      *)
(* makes of the cards                                                      *)
(***************************************************************************)

\* no run of exportToAnki is under way
NoExport ==
  /\ behavior = "skip"
  /\ allowDeckCreation = FALSE
  /\ questions = <<>>
  /\ notes = <<>>
  /\ decks = {}
  /\ pc = "idle"
  /\ result = EmptyResult
  /\ groups = <<>>
  /\ gi = 0
  /\ gResult = EmptyResult
  /\ ankiNotes = <<>>
  /\ queries = <<>>
  /\ matches = <<>>
  /\ lookups = <<>>
  /\ firstFound = <<>>
  /\ loopIdx = 0
  /\ notesToCreate = <<>>
  /\ updatedCount = 0
  /\ skippedCount = 0
  /\ addResults = <<>>
  /\ orphans = <<>>
  /\ log = <<>>
  /\ faults = 0
  /\ runsLeft = 0
  /\ reports = <<>>
  /\ updated = <<>>

\* the file has been read
InitCards ==
  /\ NoExport
  /\ NoUnit
  /\ triggers \in TriggerLists
  /\ content \in DocumentsOf(MaxLines)
  /\ step = "highlights"
  /\ highlightMatches = <<>>
  /\ remNoteMatches = <<>>
  /\ triggerWordMatches = <<>>
  /\ clozeQuestions = <<>>
  /\ qaQuestions = <<>>
  /\ triggerQuestions = <<>>
  /\ cardGroups = <<>>

ExtractHighlights ==
  /\ step = "highlights"
  /\ highlightMatches' = extractHighlights(content)
  /\ step' = "cues"
  /\ UNCHANGED <<unitVars, exportVars, triggers, content, remNoteMatches, triggerWordMatches,
                 clozeQuestions, qaQuestions, triggerQuestions, cardGroups>>

ExtractRemNoteCues ==
  /\ step = "cues"
  /\ remNoteMatches' = extractRemNoteCues(content)
  /\ step' = "triggers"
  /\ UNCHANGED <<unitVars, exportVars, triggers, content, highlightMatches, triggerWordMatches,
                 clozeQuestions, qaQuestions, triggerQuestions, cardGroups>>

\* checkForTriggerWords(content); a pattern that does not compile throws on
\* the first line (a text has at least one), and the catch block of the loop
\* leaves the file without cards
CheckForTriggerWords ==
  /\ step = "triggers"
  /\ IF \A k \in 1..Len(triggers) : RegExpCompiles(triggers[k])
       THEN /\ triggerWordMatches' = checkForTriggerWords(content, triggers)
            /\ step' = "cloze"
       ELSE /\ triggerWordMatches' = triggerWordMatches
            /\ step' = "failed"
  /\ UNCHANGED <<unitVars, exportVars, triggers, content, highlightMatches, remNoteMatches,
                 clozeQuestions, qaQuestions, triggerQuestions, cardGroups>>

GenerateClozeCards ==
  /\ step = "cloze"
  /\ clozeQuestions' = IF Len(highlightMatches) > 0
                         THEN generateContextualClozeCards(content, highlightMatches)
                         ELSE clozeQuestions
  /\ step' = "qa"
  /\ UNCHANGED <<unitVars, exportVars, triggers, content, highlightMatches, remNoteMatches,
                 triggerWordMatches, qaQuestions, triggerQuestions, cardGroups>>

GenerateQACards ==
  /\ step = "qa"
  /\ qaQuestions' = IF Len(remNoteMatches) > 0
                      THEN generateContextualQACards(remNoteMatches, content)
                      ELSE qaQuestions
  /\ step' = "trigger"
  /\ UNCHANGED <<unitVars, exportVars, triggers, content, highlightMatches, remNoteMatches,
                 triggerWordMatches, clozeQuestions, triggerQuestions, cardGroups>>

GenerateTriggerCards ==
  /\ step = "trigger"
  /\ triggerQuestions' = IF Len(triggerWordMatches) > 0
                           THEN generateContextualTriggerCards(triggerWordMatches, content,
                                                               triggers)
                           ELSE triggerQuestions
  /\ step' = "group"
  /\ UNCHANGED <<unitVars, exportVars, triggers, content, highlightMatches, remNoteMatches,
                 triggerWordMatches, clozeQuestions, qaQuestions, cardGroups>>

GroupCards ==
  /\ step = "group"
  /\ cardGroups' = groupCards(triggers, clozeQuestions \o qaQuestions \o triggerQuestions)
  /\ step' = "done"
  /\ UNCHANGED <<unitVars, exportVars, triggers, content, highlightMatches, remNoteMatches,
                 triggerWordMatches, clozeQuestions, qaQuestions, triggerQuestions>>

NextCards ==
  \/ ExtractHighlights
  \/ ExtractRemNoteCues
  \/ CheckForTriggerWords
  \/ GenerateClozeCards
  \/ GenerateQACards
  \/ GenerateTriggerCards
  \/ GroupCards

SpecCards ==
  InitCards /\ [][NextCards]_vars

\* The three card builders as functions of their arguments: a document and,
\* for each builder, a batch of raw matches that need not come from it.
InitBuilders ==
  /\ NoExport
  /\ NoUnit
  /\ triggers = Triggers
  /\ content \in DocumentsOf(1)
  /\ step = "cloze"
  /\ highlightMatches \in Batches(HighlightTexts)
  /\ remNoteMatches \in Batches(CueTexts)
  /\ triggerWordMatches \in Batches(TriggerTexts)
  /\ clozeQuestions = <<>>
  /\ qaQuestions = <<>>
  /\ triggerQuestions = <<>>
  /\ cardGroups = <<>>

NextBuilders ==
  \/ GenerateClozeCards
  \/ GenerateQACards
  \/ GenerateTriggerCards

SpecBuilders ==
  InitBuilders /\ [][NextBuilders]_vars

(***************************************************************************)
(* AnkiConnectService.isContentSimilar applied to pairs of texts            *)
(***************************************************************************)

\* the texts compared: case, punctuation and whitespace variants of one text,
\* a text with an underscore, a short part, the empty text, and three long
\* texts of which the last, 20 characters once normalized, is part of the others
SimilarTexts ==
  { <<"K","e","y"," ","p","o","i","n","t">>,
    <<"k","e","y",","," ","p","o","i","n","t","!">>,
    <<" "," ","k","e","y"," "," "," ","p","o","i","n","t"," ">>,
    <<"k","e","y","_","p","o","i","n","t">>,
    <<"k","e","y">>,
    <<>>,
    <<"t","h","e"," ","l","a","w"," ","o","f"," ","l","a","r","g","e"," ","n","u","m","b","e","r","s">>,
    <<"T","h","e"," ","L","a","w"," ","o","f"," ","l","a","r","g","e"," ","n","u","m","b","e","r","s"," ","h","o","l","d","s">>,
    <<"l","a","w"," ","o","f"," ","l","a","r","g","e"," ","n","u","m","b","e","r","s",".">> }

InitSimilar ==
  /\ NoExport
  /\ NoDocument
  /\ other = OtherDone
  /\ NoAggregation
  /\ NoEnhancement
  /\ content1 \in SimilarTexts
  /\ content2 \in SimilarTexts
  /\ similar = <<>>
  /\ similarSwapped = <<>>

\* isContentSimilar(content1, content2)
IsContentSimilar ==
  /\ similar = <<>>
  /\ similar' = <<isContentSimilar(content1, content2)>>
  /\ UNCHANGED <<exportVars, docVars, aggregateVars, enhanceVars, other, content1, content2, similarSwapped>>

\* isContentSimilar(content2, content1)
IsContentSimilarSwapped ==
  /\ similarSwapped = <<>>
  /\ similarSwapped' = <<isContentSimilar(content2, content1)>>
  /\ UNCHANGED <<exportVars, docVars, aggregateVars, enhanceVars, other, content1, content2, similar>>

NextSimilar ==
  \/ IsContentSimilar
  \/ IsContentSimilarSwapped

SpecSimilar ==
  InitSimilar /\ [][NextSimilar]_vars

(***************************************************************************)
(* AnkiDirectExporter.exportToAnki: the accumulation loop, with the buckets *)
(* taken in any order and the result of each bucket given                  *)
(***************************************************************************)

\* the names of the buckets: the configured triggers and the default deck
BucketNames ==
  Triggers \o << <<"G","e","n","e","r","a","l">> >>

\* the largest count in the result of one bucket
MaxTally ==
  1

\* the results processQuestionGroup may return for the bucket named deck: any
\* counts, a message when a question failed, the deck when it was created
DeckResultsOf(deck) ==
  { [success      |-> s,
     failed       |-> f,
     skipped      |-> k,
     errors       |-> IF f > 0 THEN <<ErrorEntry("Failed to process deck", deck, 0)>> ELSE <<>>,
     decksCreated |-> IF created THEN <<deck>> ELSE <<>>] :
      s \in 0..MaxTally, f \in 0..MaxTally, k \in 0..MaxTally, created \in BOOLEAN }

InitAggregate ==
  /\ NoExport
  /\ NoDocument
  /\ other = OtherDone
  /\ NoSimilarity
  /\ NoEnhancement
  /\ deckResults \in {rs \in [1..Len(BucketNames) -> UNION {DeckResultsOf(BucketNames[g]) : g \in 1..Len(BucketNames)}] :
                        \A g \in 1..Len(BucketNames) : rs[g] \in DeckResultsOf(BucketNames[g])}
  /\ order = <<>>
  /\ total = EmptyResult

\* one iteration of the loop over the buckets: the result of bucket g is
\* accumulated
AccumulateGroup(g) ==
  /\ \A k \in 1..Len(order) : order[k] # g
  /\ order' = Append(order, g)
  /\ total' = Accumulate(total, deckResults[g])
  /\ UNCHANGED <<exportVars, docVars, similarVars, enhanceVars, other, deckResults>>

NextAggregate ==
  \E g \in 1..Len(deckResults) : AccumulateGroup(g)

SpecAggregate ==
  InitAggregate /\ [][NextAggregate]_vars

(***************************************************************************)
(* GeminiService: the constructor and enhanceAllCards                       *)
(***************************************************************************)

\* text.match(/\[[\s\S]*\]/): from the first "[" to the last "]" after it,
\* <<>> when there is no match
JsonMatch(text) ==
  LET open == IndexOfFrom(text, <<"[">>, 1)
      closes == {j \in 1..Len(text) : text[j] = "]" /\ j > open}
  IN  IF open = 0 \/ closes = {} THEN <<>>
      ELSE SubSeq(text, open, CHOOSE j \in closes : \A k \in closes : k <= j)

\* the cards written in the body of an array, each card written as the digit
\* of its place in the pool; <<0>> leads the list when the body is no such list
RECURSIVE ParseCards(_)
ParseCards(body) ==
  LET digits == <<"1","2","3","4","5","6","7","8","9">>
      card == IF \E c \in PoolIds : body[1] = digits[c]
                THEN CHOOSE c \in PoolIds : body[1] = digits[c]
                ELSE 0
  IN  IF body = <<>> THEN <<0>>
      ELSE IF card = 0 THEN <<0>>
      ELSE IF Len(body) = 1 THEN <<card>>
      ELSE IF body[2] # "," THEN <<0>>
      ELSE IF ParseCards(SubSeq(body, 3, Len(body)))[1] = 0 THEN <<0>>
      ELSE <<card>> \o ParseCards(SubSeq(body, 3, Len(body)))

\* JSON.parse of a matched array: the cards, or a SyntaxError
JSONParse(array) ==
  LET body == SubSeq(array, 2, Len(array) - 1)
  IN  IF body = <<>> THEN [ok |-> TRUE, cards |-> <<>>]
      ELSE IF ParseCards(body)[1] = 0 THEN [ok |-> FALSE, cards |-> <<>>]
      ELSE [ok |-> TRUE, cards |-> ParseCards(body)]

\* GeminiService.enhanceAllCards(questions, ...) when generateContent answers
\* answer: what the call comes to, an error thrown or the cards returned
enhanceAllCards(configured, cards, answer) ==
  IF ~configured THEN [thrown |-> TRUE, cards |-> <<>>]
  ELSE IF ~answer.ok THEN [thrown |-> FALSE, cards |-> cards]
  ELSE IF JsonMatch(answer.text) = <<>> THEN [thrown |-> FALSE, cards |-> cards]
  ELSE IF ~JSONParse(JsonMatch(answer.text)).ok THEN [thrown |-> FALSE, cards |-> cards]
  ELSE [thrown |-> FALSE, cards |-> JSONParse(JsonMatch(answer.text)).cards]

\* the API keys the loaded settings may hold: none (the default), or one
ApiKeys ==
  {<<>>, <<"k","e","y">>}

\* the answers of generateContent: a rejection, a text without array, an
\* array never closed, an array within prose, an array that is no JSON, and
\* the empty array
Responses ==
  {Response(FALSE, <<>>)} \cup
  {Response(TRUE, text) : text \in
    { <<"S","o","r","r","y",","," ","n","o"," ","c","a","r","d","s">>,
      <<"[","2",",","1">>,
      <<"C","a","r","d","s",":"," ","[","2",",","1","]"," ","d","o","n","e">>,
      <<"[","o","o","p","s","]">>,
      <<"[","]">> }}

\* the plugin is loaded: loadSettings, then new GeminiService(settings)
InitEnhance ==
  /\ NoExport
  /\ NoDocument
  /\ other = OtherDone
  /\ NoSimilarity
  /\ NoAggregation
  /\ geminiApiKey \in ApiKeys
  /\ genAI = (geminiApiKey # <<>>)
  /\ enhanceInput = <<>>
  /\ response = Response(FALSE, <<>>)
  /\ enhanceOutput = <<>>

\* enhanceAllCards(cards, content), generateContent answering with answer
EnhanceAllCards(cards, answer) ==
  /\ enhanceInput' = cards
  /\ response' = answer
  /\ enhanceOutput' = <<enhanceAllCards(genAI, cards, answer)>>
  /\ UNCHANGED <<exportVars, docVars, similarVars, aggregateVars, other, geminiApiKey, genAI>>

NextEnhance ==
  \E cards \in QuestionLists, answer \in Responses : EnhanceAllCards(cards, answer)

SpecEnhance ==
  InitEnhance /\ [][NextEnhance]_vars

(***************************************************************************)
(* The callers of exportToAnki: the notice shown for the returned result    *)
(***************************************************************************)

\* AnkiQuizPlugin.exportMultipleFilesToAnki: the notice after exportToAnki
exportMultipleFilesToAnki(res) ==
  IF res.success > 0
    THEN [text |-> "Successfully exported", count |-> res.success, errors |-> <<>>]
    ELSE [text |-> "Export failed", count |-> 0, errors |-> res.errors]

\* QuizModal.exportToAnkiConnect: the notice after exportToAnki (the modal is
\* closed with the first)
exportToAnkiConnect(res) ==
  IF res.success > 0
    THEN [text |-> "Successfully exported", count |-> res.success, errors |-> <<>>]
    ELSE [text |-> "Export failed", count |-> 0, errors |-> res.errors]

(***************************************************************************)
(* Properties of a run                                                     *)
(***************************************************************************)

\* the report of the run that returned last
LastReport ==
  reports[Len(reports)]

\* a run has returned and none is under way
RunDone ==
  pc = "idle" /\ reports # <<>>

\* the questions of the run that fall in a bucket
AttributedCards ==
  SelectSeq(questions, LAMBDA c : TriggerOf[c] # <<>>)

\* the remote calls that create or change a record
WriteOps ==
  {"addNotes", "addNote", "updateNoteFields"}

\* the remote calls that concern a card of a bucket
CardOps ==
  WriteOps \cup {"findNotes", "notesInfo"}

\* the messages of a bucket that failed as a whole
DeckFailures ==
  {"does not exist and deck creation is disabled", "Failed to create deck"}

HasError(res, msg) ==
  \E e \in DOMAIN res.errors : res.errors[e].msg = msg

HasCall(op) ==
  \E e \in DOMAIN log : log[e].op = op

\* the loop of processQuestionGroup is running or has run for this bucket
InBucket ==
  pc \in {"loop", "add", "fallback"}

\* the positions of ankiNotes the loop has dealt with
Iterated ==
  {i \in DOMAIN matches : i < loopIdx}

\* C1: under policy skip, with every request answered and the store touched
\* by nobody else, the second of two runs over the same cards issues no
\* addNotes, addNote or updateNoteFields call and reports every card that
\* falls in a bucket as skipped.
C1_SecondRunOnlySkips ==
  (Len(reports) > 1 /\ Behavior = "skip" /\ reports[1].failed = 0) =>
    /\ \A e \in DOMAIN log : log[e].op \notin WriteOps
    /\ LastReport.skipped = Len(AttributedCards)

\* C2: under policy skip, every card whose lookup returned a record adds one
\* to skipped and stays out of the creation batch, whether its content differs
\* or not; no updateNoteFields call is issued, and exactly the cards without a
\* candidate are submitted for creation.
C2_SkipLeavesCandidates ==
  (Behavior = "skip" /\ InBucket) =>
    LET found == {i \in Iterated : matches[i].noteId # Null}
    IN  /\ skippedCount = Cardinality(found)
        /\ {notesToCreate[j] : j \in DOMAIN notesToCreate} = Iterated \ found
        /\ ~HasCall("updateNoteFields")
        /\ \A e \in DOMAIN log :
             (log[e].op = "addNote" /\ log[e].deck = deckName)
               => matches[log[e].arg].noteId = Null

\* C2 witness: the loop of a bucket has ended under skip with one card whose
\* record was found with other content, counted as skipped, and one card
\* without candidate in the creation batch
C2_Witness ==
  /\ Behavior = "skip"
  /\ pc = "add"
  /\ skippedCount = 1
  /\ Len(notesToCreate) = 1
  /\ \E i \in DOMAIN matches :
       /\ matches[i].noteId # Null
       /\ Differs(ankiNotes[i], matches[i].existingFields)

\* the loop of processQuestionGroup takes the iteration for note loopIdx
IterationStep ==
  /\ pc = "loop"
  /\ loopIdx' = loopIdx + 1

\* C3: under policy update, the iteration for a front/back card whose record
\* has a similar Front and a Back that is not similar issues exactly one
\* remote call, updateNoteFields for that record with the new Back as its only
\* field, and the Front of the record stays as it was.
C3_UpdateWritesBackOnly ==
  [][(/\ IterationStep
      /\ Behavior = "update"
      /\ ankiNotes[loopIdx].modelName # "Cloze"
      /\ matches[loopIdx].noteId # Null
      /\ isContentSimilar(FieldOr(matches[loopIdx].existingFields, "Front"),
                          FieldOr(ankiNotes[loopIdx].fields, "Front"))
      /\ ~isContentSimilar(FieldOr(matches[loopIdx].existingFields, "Back"),
                           FieldOr(ankiNotes[loopIdx].fields, "Back")))
       => /\ log' = Append(log, Call("updateNoteFields", deckName, matches[loopIdx].noteId,
                                     [Back |-> ankiNotes[loopIdx].fields.Back]))
          /\ notes'[matches[loopIdx].noteId].fields.Front
               = notes[matches[loopIdx].noteId].fields.Front
          /\ notesToCreate' = notesToCreate
          /\ skippedCount' = skippedCount
     ]_vars

\* C3 witness: under update, the record of a front/back card has just been
\* given the new Back and nothing else
C3_Witness ==
  /\ Behavior = "update"
  /\ InBucket
  /\ updatedCount = 1
  /\ \E e \in DOMAIN log :
       /\ log[e].op = "updateNoteFields"
       /\ DOMAIN log[e].fields = {"Back"}
       /\ notes[log[e].arg].fields.Back = log[e].fields.Back
       /\ \E i \in Iterated :
            /\ matches[i].noteId = log[e].arg
            /\ notes[log[e].arg].fields.Front = matches[i].existingFields.Front
            /\ notes[log[e].arg].fields.Back # matches[i].existingFields.Back

\* C4: under policy update, the update issued for a cloze card whose record
\* is classified changed carries the Text field, with the new cloze body of
\* the card.
C4_ClozeUpdateWritesText ==
  (Behavior = "update" /\ InBucket) =>
    \A e \in DOMAIN log :
      (/\ log[e].op = "updateNoteFields"
       /\ log[e].deck = deckName
       /\ notes[log[e].arg].modelName = "Cloze")
        => /\ "Text" \in DOMAIN log[e].fields
           /\ \E i \in Iterated :
                /\ matches[i].noteId = log[e].arg
                /\ log[e].fields.Text = ankiNotes[i].fields.Text

\* the last run got past its connectivity probe
ProbePassed ==
  ~HasError(LastReport, "AnkiConnect is not available")

\* C5: under policy create, every card of a bucket is submitted for creation,
\* matched or not: nothing is counted as skipped, no updateNoteFields call is
\* issued, and a record the store rejects is counted as failed while the
\* others are still created, so that every card that falls in a bucket ends
\* up counted as success or as failed.
C5_CreateSubmitsEveryCard ==
  Behavior = "create" =>
    /\ ~HasCall("updateNoteFields")
    /\ skippedCount = 0
    /\ gResult.skipped = 0
    /\ result.skipped = 0
    /\ updatedCount = 0
    /\ InBucket => notesToCreate = [j \in 1..(loopIdx - 1) |-> j]
    /\ (RunDone /\ ProbePassed) =>
         /\ LastReport.skipped = 0
         /\ LastReport.success + LastReport.failed = Len(AttributedCards)

\* C5 witness: a run under create has returned; a lookup had found a record,
\* the store rejected one of the two submitted cards and accepted the other,
\* with no request failing
C5_Witness ==
  /\ Behavior = "create"
  /\ RunDone
  /\ faults = MaxFaults
  /\ HasCall("notesInfo")
  /\ LastReport.success = 1
  /\ LastReport.failed = 1
  /\ HasError(LastReport, "Failed to add card in")

\* the calls addNotes has sent for the bucket, in order
CreationCalls ==
  SelectSeq(log, LAMBDA e : e.op \in {"addNotes", "addNote"} /\ e.deck = deckName)

NullCount(ids) ==
  Len(SelectSeq(ids, LAMBDA x : x = Null))

\* the fallback of addNotes sends the next note on its own
FallbackStep ==
  /\ pc = "fallback"
  /\ pc' # "fallback" \/ addResults' # addResults

\* After a bulk request that failed, the calls sent for the bucket are that
\* request and then one addNote per note of the batch handled so far, in the
\* order of the batch.
FallbackInOrder ==
  pc = "fallback" =>
    CreationCalls = <<Call("addNotes", deckName, Len(notesToCreate), NoFields)>>
                      \o [j \in 1..Len(addResults) |->
                            Call("addNote", deckName, notesToCreate[j], NoFields)]

\* C6: when the bulk addNotes request for N notes fails as a whole, every note
\* is sent on its own exactly once, in order; the entry of a note is null
\* exactly when its own attempt stored nothing, and with k such entries the
\* bucket's success grows by N - k and its failed by k.
C6_FallbackOneByOne ==
  /\ []FallbackInOrder
  /\ [][FallbackStep =>
          LET j == Len(addResults) + 1
              entry == IF notes' # notes THEN Len(notes') ELSE Null
              results == Append(addResults, entry)
              k == NullCount(results)
              N == Len(notesToCreate)
          IN  /\ log' = Append(log, Call("addNote", deckName, notesToCreate[j], NoFields))
              /\ notes' \in {notes, Append(notes, Batch[j])}
              /\ IF j < N
                   THEN /\ pc' = "fallback"
                        /\ addResults' = results
                   ELSE /\ result'.success = result.success + gResult.success + (N - k)
                        /\ result'.failed = result.failed + gResult.failed + k
                        /\ Len(result'.errors) = Len(result.errors) + Len(gResult.errors) + k
     ]_vars

\* C6 witness: a run has returned after a bulk request for two notes failed
\* and the notes were sent one by one, one stored and one not
C6_Witness ==
  /\ RunDone
  /\ Len(SelectSeq(log, LAMBDA e : e.op = "addNotes")) = 1
  /\ Len(SelectSeq(log, LAMBDA e : e.op = "addNote")) = 2
  /\ LastReport.success = 1
  /\ LastReport.failed = 1

\* the step that answers the deckNames or createDeck request of the bucket
DeckNamesStep ==
  /\ pc = "deckNames"
  /\ Len(log') > Len(log)
  /\ log'[Len(log) + 1].op = "deckNames"

CreateDeckStep ==
  /\ pc = "createDeck"
  /\ Len(log') > Len(log)
  /\ log'[Len(log) + 1].op = "createDeck"

\* No call concerning a card has been sent for a deck whose bucket failed as
\* a whole.
FailedBucketsUntouched ==
  \A e \in DOMAIN result.errors :
    result.errors[e].msg \in DeckFailures =>
      \A c \in DOMAIN log :
        log[c].deck = result.errors[e].deck => log[c].op \notin CardOps

\* C7: when the deck of a bucket is absent and may not be created, or its
\* createDeck request fails, no lookup, create or update call is sent for the
\* bucket, failed grows by the number of its cards and errors by one message,
\* success and skipped stay, the store is left as it was, and the run goes on
\* with the next bucket from a fresh start, as if that bucket came alone.
C7_BucketFailureIsolated ==
  /\ []FailedBucketsUntouched
  /\ [][(\/ DeckNamesStep /\ deckName \notin decks /\ ~allowDeckCreation
         \/ CreateDeckStep /\ faults' < faults)
          => /\ result'.failed = result.failed + Len(GroupQuestions)
             /\ result'.success = result.success
             /\ result'.skipped = result.skipped
             /\ result'.decksCreated = result.decksCreated
             /\ Len(result'.errors) = Len(result.errors) + 1
             /\ result'.errors[Len(result'.errors)].msg \in DeckFailures
             /\ result'.errors[Len(result'.errors)].deck = deckName
             /\ Len(log') = Len(log) + 1
             /\ notes' = notes
             /\ decks' = decks
             /\ gResult' = EmptyResult
             /\ matches' = <<>>
             /\ notesToCreate' = <<>>
             /\ skippedCount' = 0
             /\ updatedCount' = 0
             /\ IF gi < Len(groups)
                  THEN pc' = "deckNames" /\ gi' = gi + 1
                  ELSE pc' = "idle" /\ reports' = Append(reports, result')
     ]_vars

\* C7 witness: a run over two buckets has returned; one bucket failed as a
\* whole for its deck and the other had its card created
C7_Witness ==
  /\ RunDone
  /\ Len(groups) > 1
  /\ \E e \in DOMAIN LastReport.errors : LastReport.errors[e].msg \in DeckFailures
  /\ LastReport.failed = 1
  /\ LastReport.success = 1
  /\ HasCall("addNotes")

\* the decks the run has recorded as created so far
DecksRecorded ==
  result.decksCreated \o gResult.decksCreated

\* C8: with deck creation allowed, a bucket whose deck is absent has its
\* createDeck request sent right after the deck names and before any call
\* concerning one of its cards; a created deck is recorded in decksCreated
\* once, and a deck the store already had is never recorded.
C8_DeckCreatedOnceIfAbsent ==
  /\ [](\A a, b \in DOMAIN DecksRecorded : DecksRecorded[a] = DecksRecorded[b] => a = b)
  /\ [][(DeckNamesStep /\ allowDeckCreation /\ deckName \notin decks)
          => (pc' = "createDeck" /\ Len(log') = Len(log) + 1)]_vars
  /\ [][CreateDeckStep
          => \A c \in DOMAIN log : (log[c].deck = deckName => log[c].op \notin CardOps)]_vars
  /\ [][(CreateDeckStep /\ faults' = faults)
          => gResult'.decksCreated = <<deckName>>]_vars
  /\ [][(gResult'.decksCreated # gResult.decksCreated /\ gResult'.decksCreated # <<>>)
          => deckName \notin decks]_vars

\* the step that answers the version request of the connectivity probe
ProbeStep ==
  /\ pc = "probe"
  /\ pc' # "probe"

\* C9: when the connectivity probe fails, the run ends there: the version
\* request is the only remote call of the run, and the report has success 0,
\* skipped 0, failed equal to the number of questions given, one error
\* message and no deck.
C9_FailedProbeEndsRun ==
  [][(ProbeStep /\ faults' < faults)
       => /\ pc' = "idle"
          /\ log' = <<Call("version", <<>>, 0, NoFields)>>
          /\ reports' = Append(reports,
               [success |-> 0, failed |-> Len(questions), skipped |-> 0,
                errors |-> <<ErrorEntry("AnkiConnect is not available", <<>>, 0)>>,
                decksCreated |-> <<>>])
          /\ notes' = notes
          /\ decks' = decks
     ]_vars

\* C9 witness: a run over two questions has returned after its probe failed
C9_Witness ==
  /\ RunDone
  /\ Len(questions) > 1
  /\ ~ProbePassed
  /\ LastReport.failed = Len(questions)
  /\ Len(log) = 1

\* C10: a run of exportToAnki that has started returns a result, whatever
\* requests fail on the way, and never ends by throwing to its caller.
C10_AlwaysReturns ==
  /\ [](pc # "rejected")
  /\ (pc = "probe") ~> (pc = "idle" /\ reports # <<>>)

\* C10 witness: a run has returned although a request failed after the probe
\* had passed
C10_Witness ==
  /\ RunDone
  /\ faults < MaxFaults
  /\ ProbePassed
  /\ LastReport.failed > 0

\* failed and errors of the run so far: what exportToAnki has accumulated and
\* what the bucket under way has collected
TotalFailed ==
  result.failed + gResult.failed

AllErrors ==
  result.errors \o gResult.errors

\* the step that answers the updateNoteFields request of an iteration with a failure
FailedUpdateStep ==
  /\ IterationStep
  /\ faults' < faults

\* the step of the fallback in which the store answers the note with an error
RejectedAddStep ==
  /\ FallbackStep
  /\ faults' = faults
  /\ StoreRejection(notes, decks, Batch[Len(addResults) + 1]) # ""

\* C11: when the store rejects the creation or the update of one record, the
\* run goes on, failed grows by one for that record, and the errors of the
\* report hold the message the store answered with.
C11_StoreMessageKept ==
  /\ [][RejectedAddStep =>
          /\ pc' # "rejected"
          /\ notes' = notes
          /\ IF Len(addResults) + 1 < Len(notesToCreate)
               THEN addResults' = Append(addResults, Null)
               ELSE /\ result'.failed = TotalFailed + NullCount(addResults) + 1
                    /\ HasError(result',
                                StoreRejection(notes, decks, Batch[Len(addResults) + 1]))
       ]_vars
  /\ [][FailedUpdateStep =>
          /\ pc' \in {"loop", "add"}
          /\ TotalFailed' = TotalFailed + 1
          /\ Len(AllErrors') = Len(AllErrors) + 1
       ]_vars

\* the step that answers a findNotes or notesInfo request the bucket waits
\* for with a failure
FailedLookupStep ==
  /\ pc = "lookup"
  /\ faults' < faults
  /\ lookups' # lookups

\* C12: when the findNotes or notesInfo request of one card fails, the failure
\* is recorded and stays with that card: the cards whose lookup has ended keep
\* the record it found or did not find, and the lookups still under way go on.
C12_LookupFailureConfined ==
  [][FailedLookupStep =>
       \E k \in DOMAIN lookups :
         /\ lookups[k] # "done"
         /\ lookups'[k] = "done"
         /\ \A j \in DOMAIN lookups \ {k} :
              /\ matches'[j] = matches[j]
              /\ lookups'[j] = lookups[j]
         /\ Len(AllErrors') = Len(AllErrors) + 1
    ]_vars

\* the step that answers the bulk addNotes request of the bucket
BulkAddStep ==
  /\ pc = "add"
  /\ Len(log') > Len(log)
  /\ log'[Len(log) + 1].op = "addNotes"

\* C13: a request that is answered with an error counts as a failure of that
\* request and is never read as a result: failed deck names are not an empty
\* list of decks, a failed lookup is not "no record found", a failed
\* createDeck, updateNoteFields, addNotes or addNote has stored nothing and is
\* treated as failed.
C13_ErrorNeverAResult ==
  /\ [][(DeckNamesStep /\ faults' < faults) =>
          /\ pc' # "createDeck"
          /\ ~HasError(result', "does not exist and deck creation is disabled")
             \/ HasError(result, "does not exist and deck creation is disabled")
       ]_vars
  /\ [][FailedLookupStep =>
          ~\E k \in DOMAIN lookups :
             /\ lookups[k] # "done"
             /\ lookups'[k] = "done"
             /\ matches'[k] = NoMatch
             /\ AllErrors' = AllErrors
       ]_vars
  /\ [][(CreateDeckStep /\ faults' < faults) =>
          /\ decks' = decks
          /\ HasError(result', "Failed to create deck")
       ]_vars
  /\ [][FailedUpdateStep =>
          /\ notes' = notes
          /\ updatedCount' = updatedCount
          /\ TotalFailed' = TotalFailed + 1
       ]_vars
  /\ [][(BulkAddStep /\ faults' < faults) =>
          /\ notes' = notes
          /\ pc' = "fallback"
       ]_vars
  /\ [][(FallbackStep /\ faults' < faults) =>
          /\ notes' = notes
          /\ pc' = "fallback" => addResults' = Append(addResults, Null)
       ]_vars

\* seq is old with zero or more elements appended
Extends(seq, old) ==
  /\ Len(seq) >= Len(old)
  /\ SubSeq(seq, 1, Len(old)) = old

\* during a run, the errors collected so far are only ever appended to, and
\* a report, once returned, stays as it is
ErrorsAppendOnly ==
  /\ pc # "idle" => Extends(AllErrors', AllErrors)
  /\ Extends(reports', reports)
  /\ reports' # reports => reports' = Append(reports, result')

\* the step in which a bucket fails as a whole for its deck
BucketFailureStep ==
  /\ DeckNamesStep \/ CreateDeckStep
  /\ pc' # "createDeck"
  /\ lookups' = <<>>

\* C20 as stated: the report of a run has exactly one errors entry per failure
\* counted in failed, and entries are only appended, in the order the failures
\* were met.
C20_OneEntryPerFailedCard ==
  /\ [](RunDone => Len(LastReport.errors) = LastReport.failed)
  /\ [][ErrorsAppendOnly]_vars

\* C20, amended: errors is append-only and has one entry per failure met, in
\* the order met: one entry for each record whose update or creation failed
\* (failed grows by one with it), and one entry for a failed connectivity
\* probe or a bucket that failed as a whole, with which failed grows by the
\* number of questions of the run or of the bucket.
C20_OneEntryPerFailure ==
  /\ [][ErrorsAppendOnly]_vars
  /\ [][pc # "idle" =>
          IF ProbeStep /\ faults' < faults
            THEN /\ Len(AllErrors') = Len(AllErrors) + 1
                 /\ TotalFailed' = Len(questions)
          ELSE IF BucketFailureStep
            THEN /\ Len(AllErrors') = Len(AllErrors) + 1
                 /\ TotalFailed' = TotalFailed + Len(GroupQuestions)
          ELSE Len(AllErrors') - Len(AllErrors) = TotalFailed' - TotalFailed
       ]_vars

\* C20 witness: a run has returned after its only bucket, of two questions,
\* failed as a whole: two failures counted, one message
C20_Witness ==
  /\ RunDone
  /\ ProbePassed
  /\ LastReport.failed = 2
  /\ Len(LastReport.errors) = 1
  /\ LastReport.errors[1].msg \in DeckFailures

\* the loop of processQuestionGroup issues updateNoteFields for note loopIdx
UpdateCallStep ==
  /\ IterationStep
  /\ Len(log') = Len(log) + 1
  /\ log'[Len(log')].op = "updateNoteFields"

\* the field that carries the prompt of a note
PromptField(note) ==
  IF note.modelName = "Cloze" THEN "Text" ELSE "Front"

(* C25: under policy update, updateNoteFields is issued on a record only if
   the record's prompt field (Front, or Text for a cloze note) is similar to
   the prompt field of the card; a record the search key returned first but
   whose prompt differs is not overwritten. *)
C25_UpdateOnlySimilarPrompt ==
  [][UpdateCallStep =>
       isContentSimilar(FieldOr(notes[matches[loopIdx].noteId].fields,
                                PromptField(ankiNotes[loopIdx])),
                        FieldOr(ankiNotes[loopIdx].fields, PromptField(ankiNotes[loopIdx])))
    ]_vars

(* C27: after any run of exportToAnki whose connectivity probe succeeded,
   success + failed + skipped is the number of input cards that fall in a
   bucket, under every policy and every pattern of remote failures. *)
C27_CountConservation ==
  (RunDone /\ ProbePassed) =>
    LastReport.success + LastReport.failed + LastReport.skipped = Len(AttributedCards)

\* C27 witness: a run under update has returned with one card updated and one
\* whose creation failed after a failed bulk request
C27_Witness ==
  /\ RunDone
  /\ ProbePassed
  /\ Behavior = "update"
  /\ HasCall("updateNoteFields")
  /\ HasCall("addNote")
  /\ LastReport.success = 1
  /\ LastReport.failed = 1

\* the last step of the fallback of addNotes: addResults is complete
LastFallbackStep ==
  /\ FallbackStep
  /\ Len(addResults) + 1 = Len(notesToCreate)

(* C28: the error entry processQuestionGroup appends for a failed record
   creation names the card whose creation failed, also when earlier cards of
   the bucket were skipped or updated and are not part of the creation
   batch. *)
C28_ErrorNamesFailedCard ==
  [][LastFallbackStep =>
       LET results == Append(addResults, IF notes' # notes THEN Len(notes') ELSE Null)
           nulls == SelectSeq([j \in 1..Len(results) |-> j], LAMBDA j : results[j] = Null)
           old == Len(result.errors) + Len(gResult.errors)
       IN  /\ Len(result'.errors) = old + Len(nulls)
           /\ \A m \in 1..Len(nulls) :
                /\ result'.errors[old + m].msg = "Failed to add card in"
                /\ result'.errors[old + m].arg = GroupQuestions[notesToCreate[nulls[m]]]
    ]_vars

\* the loop of the second run takes the iteration for a question that
\* updateNoteFields was called for in the first run
RepeatedIterationStep ==
  /\ IterationStep
  /\ Len(updated) = 2
  /\ GroupQuestions[loopIdx] \in updated[1]

(* C26: with policy update and every remote call succeeding, after a run that
   issued updateNoteFields for a card, the immediately repeated run on the
   same cards classifies the card as identical and issues no updateNoteFields
   call for it. *)
C26_UpdateConverges ==
  [][RepeatedIterationStep =>
       /\ ~Differs(ankiNotes[loopIdx], matches[loopIdx].existingFields)
       /\ skippedCount' = skippedCount + 1
       /\ log' = log
    ]_vars

(***************************************************************************)
(* Properties of isContentSimilar                                           *)
(***************************************************************************)

\* s lowercased, punctuation replaced by spaces, whitespace collapsed, trimmed
Normalized(s) ==
  trim(CollapseSpaces(StripPunctuation(toLowerCase(s))))

\* one of two texts is a part of the other
OneContainsOther(a, b) ==
  \/ \E i \in 1..(Len(a) - Len(b) + 1) : SubSeq(a, i, i + Len(b) - 1) = b
  \/ \E i \in 1..(Len(b) - Len(a) + 1) : SubSeq(b, i, i + Len(a) - 1) = a

\* the classification of two texts: equal once normalized, or both longer
\* than 20 characters once normalized and one a part of the other
ClassifiedSimilar(a, b) ==
  LET na == Normalized(a)
      nb == Normalized(b)
  IN  \/ na = nb
      \/ /\ Len(na) > 20
         /\ Len(nb) > 20
         /\ OneContainsOther(na, nb)

(* C24: isContentSimilar(a, b) is true exactly when the two texts, lowercased,
   with punctuation replaced by spaces, whitespace collapsed and trimmed, are
   equal, or both normalized texts are longer than 20 characters and one
   contains the other; it is reflexive and symmetric in its arguments. *)
C24_SimilarityClassification ==
  /\ similar # <<>> => similar[1] = ClassifiedSimilar(content1, content2)
  /\ (similar # <<>> /\ content1 = content2) => similar[1] = TRUE
  /\ (similar # <<>> /\ similarSwapped # <<>>) => similar[1] = similarSwapped[1]

\* both orders of a long text and a longer text holding it were classified
\* similar
C24_Witness ==
  /\ similar = <<TRUE>>
  /\ similarSwapped = <<TRUE>>
  /\ Normalized(content1) # Normalized(content2)
  /\ Len(Normalized(content1)) > 20

\* a run returned without failure and with every card skipped
AllSkipped(res) ==
  /\ res.failed = 0
  /\ res.errors = <<>>
  /\ res.success = 0
  /\ res.skipped > 0

(* C30: a run of exportToAnki in which nothing failed and every card was
   skipped because it already exists is not reported to the user as a failed
   export by exportMultipleFilesToAnki and QuizModal.exportToAnkiConnect. *)
C30_AllSkippedNotReportedFailed ==
  (RunDone /\ AllSkipped(LastReport)) =>
    /\ exportMultipleFilesToAnki(LastReport).text # "Export failed"
    /\ exportToAnkiConnect(LastReport).text # "Export failed"

(***************************************************************************)
(* Properties of the accumulation loop                                      *)
(***************************************************************************)

\* every bucket has been accumulated
AllAccumulated ==
  /\ deckResults # <<>>
  /\ Len(order) = Len(deckResults)

\* the sum of the counts the first n buckets, in the order of the entries,
\* returned in field f
RECURSIVE SumOfFirst(_, _)
SumOfFirst(f, n) ==
  IF n = 0 THEN 0 ELSE SumOfFirst(f, n - 1) + deckResults[n][f]

\* the entries of a list, as a set
EntriesOf(list) ==
  {list[k] : k \in 1..Len(list)}

\* the decks the buckets report as created
AllDecksCreated ==
  UNION {EntriesOf(deckResults[g].decksCreated) : g \in 1..Len(deckResults)}

(* C21: for fixed results of the buckets, the totals success, failed and
   skipped and the set of decksCreated of the report are the same for every
   order in which the buckets are processed: they are those of the order of
   the entries. *)
C21_CommutativeAggregation ==
  AllAccumulated =>
    /\ total.success = SumOfFirst("success", Len(deckResults))
    /\ total.failed = SumOfFirst("failed", Len(deckResults))
    /\ total.skipped = SumOfFirst("skipped", Len(deckResults))
    /\ EntriesOf(total.decksCreated) = AllDecksCreated

\* buckets with different results were accumulated in an order that is not
\* the order of the entries
C21_Witness ==
  /\ AllAccumulated
  /\ order = <<3, 1, 2>>
  /\ deckResults[1].success # deckResults[3].success
  /\ deckResults[1].failed # deckResults[2].failed
  /\ deckResults[3].decksCreated # <<>>
  /\ deckResults[1].decksCreated = <<>>
  /\ Len(total.errors) >= 1

(***************************************************************************)
(* Properties of enhanceAllCards                                            *)
(***************************************************************************)

\* a call of enhanceAllCards has come to its end
EnhanceStep ==
  /\ enhanceOutput' # <<>>
  /\ <<enhanceInput, response, enhanceOutput>>' # <<enhanceInput, response, enhanceOutput>>

\* the call cannot enhance: no client, a rejected request, or an answer that
\* holds no array that parses
CannotEnhance(configured, answer) ==
  \/ ~configured
  \/ ~answer.ok
  \/ JsonMatch(answer.text) = <<>>
  \/ ~JSONParse(JsonMatch(answer.text)).ok

(* C22: enhanceAllCards never propagates an error to its caller; whenever
   enhancement cannot be performed (client not configured, API call failed,
   response not parsable) it returns the original input cards unchanged. *)
C22_EnhancementBestEffort ==
  [][EnhanceStep =>
       /\ ~enhanceOutput'[1].thrown
       /\ CannotEnhance(genAI, response') => enhanceOutput'[1].cards = enhanceInput'
    ]_vars

(***************************************************************************)
(* Properties of two overlapping runs                                       *)
(***************************************************************************)

\* the records of the store that are the note of question c
RecordsOf(c) ==
  {id \in 1..Len(notes) : notes[id] = NoteOf[c]}

(* C29: two overlapping runs of exportToAnki with policy skip over the same
   questions and initially empty decks create each card at most once in
   total: whatever the interleaving of their lookups and creations, the store
   never holds two records for the same card, nor a record of anything else. *)
C29_CreatedAtMostOnce ==
  /\ \A k \in 1..Len(questions) :
       questions[k] \in DOMAIN NoteOf => Cardinality(RecordsOf(questions[k])) <= 1
  /\ \A id \in 1..Len(notes) :
       \E k \in 1..Len(questions) :
         questions[k] \in DOMAIN NoteOf /\ notes[id] = NoteOf[questions[k]]

\* both runs have returned; both had looked the card up before either
\* created it, and the store turned the later creation down
C29_Witness ==
  /\ RunDone
  /\ other.stage = "done"
  /\ other.rejected > 0
  /\ HasCall("addNotes")
  /\ Len(notes) = 2

(***************************************************************************)
(* Properties of cue extraction and card building                          *)
(***************************************************************************)

\* the configured trigger word generateContextualTriggerCards matches first
\* on a line checkForTriggerWords returned
MatchedTrigger(line) ==
  SelectSeq(triggers, LAMBDA w : TriggerRegexGroup3(line, w) # <<>>)[1]

\* the card is in the bucket named word
CardInBucket(card, word) ==
  \E g \in 1..Len(cardGroups) :
    /\ cardGroups[g].triggerWord = word
    /\ \E j \in 1..Len(cardGroups[g].questions) : cardGroups[g].questions[j] = card

(* C14: every card generateContextualTriggerCards builds from a line matched
   by the configured trigger word w is placed by groupQuestionsByTrigger in
   the bucket named exactly w, whatever other configured trigger words occur
   in the card's file name, heading or answer. *)
C14_TriggerCardInItsBucket ==
  step = "done" =>
    \A k \in 1..Len(triggerQuestions) :
      CardInBucket(triggerQuestions[k], MatchedTrigger(triggerWordMatches[k]))

\* k asterisks
Stars(k) ==
  [i \in 1..k |-> "*"]

\* the line 'w: t' with the word w between k asterisks on either side
EmphasisLine(k, w, t) ==
  Stars(k) \o w \o Stars(k) \o <<":", " ">> \o t

\* what follows 'w: ' in a line of that form
TextAfter(k, w, line) ==
  SubSeq(line, 2 * k + Len(w) + 3, Len(line))

\* the line is returned by checkForTriggerWords and its card has answer t
ReturnedWithAnswer(line, t) ==
  \E j \in 1..Len(triggerWordMatches) :
    /\ triggerWordMatches[j] = line
    /\ j <= Len(triggerQuestions)
    /\ triggerQuestions[j].answer = t

(* C15: for every configured trigger word w and non-empty text t, each of
   the lines 'w: t', '*w*: t', '**w**: t' and '***w***: t' is returned by
   checkForTriggerWords, and the card generateContextualTriggerCards builds
   from it has answer t, trimmed. *)
C15_EmphasisAroundTrigger ==
  step \in {"group", "done"} =>
    \A i \in 1..Len(SplitLines(content)), n \in 1..Len(triggers), k \in 0..3 :
      LET line == SplitLines(content)[i]
          t == TextAfter(k, triggers[n], line)
      IN  (line = EmphasisLine(k, triggers[n], t) /\ trim(t) # <<>>)
            => ReturnedWithAnswer(line, trim(t))

\* the lines of the document that match the pattern of a configured trigger word
TriggerLines ==
  SelectSeq(SplitLines(content),
            LAMBDA line : \E n \in 1..Len(triggers) :
                            TriggerRegexGroup3(line, triggers[n]) # <<>>)

(* C16: checkForTriggerWords returns at most one match per document line,
   whatever the configured trigger list, so that a line produces at most one
   trigger card. *)
C16_OneMatchPerLine ==
  /\ step \in {"cloze", "qa", "trigger", "group", "done"}
       => Len(triggerWordMatches) <= Len(TriggerLines)
  /\ step \in {"group", "done"}
       => Len(triggerQuestions) <= Len(TriggerLines)

\* a non-empty prefix, one double colon, a non-empty suffix, no other colon
\* pair and no highlight delimiter
IsCueLine(line) ==
  /\ \E c \in 2..(Len(line) - 2) :
       /\ StartsAt(line, c, ColonColon)
       /\ \A d \in 1..Len(line) : d # c => ~StartsAt(line, d, ColonColon)
  /\ ~Includes(line, EqEq)

\* the text before and after the first double colon of a line that has one
CuePrefix(line) ==
  SubSeq(line, 1, IndexOfFrom(line, ColonColon, 1) - 1)

CueSuffix(line) ==
  SubSeq(line, IndexOfFrom(line, ColonColon, 1) + 2, Len(line))

\* String.prototype.endsWith
EndsWith(s, p) ==
  StartsAt(s, Len(s) - Len(p) + 1, p)

(* C17: extractRemNoteCues returns exactly the document lines made of a
   non-empty prefix, one double colon and a non-empty suffix, with no other
   colon pair and no '=='; and for a returned line the card of
   generateContextualQACards has the trimmed prefix as the text of its prompt
   and the trimmed suffix as its answer. *)
C17_CueLines ==
  /\ step \in {"triggers", "cloze", "qa", "trigger", "group", "done"}
       => remNoteMatches = SelectSeq(SplitLines(content), IsCueLine)
  /\ step \in {"trigger", "group", "done"}
       => /\ Len(qaQuestions) = Len(remNoteMatches)
          /\ \A j \in 1..Len(remNoteMatches) :
               /\ EndsWith(qaQuestions[j].question,
                           <<"\n", " ">> \o trim(CuePrefix(remNoteMatches[j])))
               /\ qaQuestions[j].answer = trim(CueSuffix(remNoteMatches[j]))

\* the document line each raw match was extracted from, in the order the
\* extractors return the matches
HighlightSource ==
  Concat([i \in 1..Len(SplitLines(content)) |->
            [k \in 1..Len(extractHighlights(SplitLines(content)[i])) |-> i]])

CueSource ==
  SelectSeq([i \in 1..Len(SplitLines(content)) |-> i],
            LAMBDA i : /\ CueRegexMatches(SplitLines(content)[i])
                       /\ ~Includes(SplitLines(content)[i], EqEq))

TriggerSource ==
  Concat([i \in 1..Len(SplitLines(content)) |->
            [k \in 1..Len(SelectSeq(triggers, LAMBDA w :
                             TriggerRegexGroup3(SplitLines(content)[i], w) # <<>>)) |-> i]])

\* the first document line that contains the text
FirstLineWith(text) ==
  MinOf({i \in 1..Len(SplitLines(content)) : Includes(SplitLines(content)[i], text)})

\* the text of the nearest heading line above line i of the document, <<>>
\* when no heading line precedes it
NearestHeadingBefore(i) ==
  LET lines == SplitLines(content)
      above == {h \in 1..(i - 1) : HeaderRegexGroup1(trim(lines[h])) # <<>>}
  IN  IF above = {} THEN <<>> ELSE HeaderRegexGroup1(trim(lines[MaxOf(above)]))

\* the card opens with the file name and the heading h (no heading for <<>>)
ClozeOrQAHasHeading(card, h) ==
  StartsWith(card.question, WithHeader(FileName, h) \o <<"\n", " ">>)

TriggerCardHasHeading(card, h) ==
  StartsWith(card.question, WithHeader(FileName \o <<"\n">>, h) \o <<"\n", "\n">>)

\* every raw match has its card
OneCardPerMatch ==
  /\ Len(clozeQuestions) = Len(highlightMatches)
  /\ Len(qaQuestions) = Len(remNoteMatches)
  /\ Len(triggerQuestions) = Len(triggerWordMatches)

(* C18 as stated: the heading attached to the card of a raw match extracted
   from line L is the nearest heading line that precedes L, null when none
   precedes L, also when the match text occurs on an earlier line. *)
C18_HeadingOfSourceLine ==
  step = "done" =>
    /\ OneCardPerMatch
    /\ Len(HighlightSource) = Len(highlightMatches)
    /\ Len(CueSource) = Len(remNoteMatches)
    /\ Len(TriggerSource) = Len(triggerWordMatches)
    /\ \A j \in 1..Len(clozeQuestions) :
         ClozeOrQAHasHeading(clozeQuestions[j], NearestHeadingBefore(HighlightSource[j]))
    /\ \A j \in 1..Len(qaQuestions) :
         ClozeOrQAHasHeading(qaQuestions[j], NearestHeadingBefore(CueSource[j]))
    /\ \A j \in 1..Len(triggerQuestions) :
         TriggerCardHasHeading(triggerQuestions[j], NearestHeadingBefore(TriggerSource[j]))

(* C18, amended: the heading attached to the card of a raw match is the
   nearest heading line that precedes the first document line containing the
   match text, null when no heading line precedes that line; that line is
   the line the match was extracted from unless the text occurs earlier. *)
C18_HeadingOfFirstOccurrence ==
  step = "done" =>
    /\ OneCardPerMatch
    /\ \A j \in 1..Len(clozeQuestions) :
         /\ FirstLineWith(highlightMatches[j]) <= HighlightSource[j]
         /\ ClozeOrQAHasHeading(clozeQuestions[j],
                                NearestHeadingBefore(FirstLineWith(highlightMatches[j])))
    /\ \A j \in 1..Len(qaQuestions) :
         /\ FirstLineWith(remNoteMatches[j]) <= CueSource[j]
         /\ ClozeOrQAHasHeading(qaQuestions[j],
                                NearestHeadingBefore(FirstLineWith(remNoteMatches[j])))
    /\ \A j \in 1..Len(triggerQuestions) :
         /\ FirstLineWith(triggerWordMatches[j]) <= TriggerSource[j]
         /\ TriggerCardHasHeading(triggerQuestions[j],
                                  NearestHeadingBefore(FirstLineWith(triggerWordMatches[j])))

\* a cue line under two headings: its card carries the nearer one
C18_Witness ==
  /\ step = "done"
  /\ SplitLines(content) = <<DocLines[1], DocLines[2], DocLines[3]>>
  /\ Len(qaQuestions) = 1
  /\ qaQuestions[1].question = FileName \o <<"\n", "-", ">", " ", "G", "\n", " ", "a">>

\* the raw matches of the batch whose text occurs in a line of the document
Located(batch) ==
  SelectSeq(batch, LAMBDA text :
    \E i \in 1..Len(SplitLines(content)) : Includes(SplitLines(content)[i], text))

(* C19: for each of the three card builders, a raw match whose text occurs
   in no line of the document produces no card, and the other matches of the
   batch produce their cards. *)
C19_StaleMatchesDropped ==
  /\ step \in {"qa", "trigger", "group"}
       => clozeQuestions = generateContextualClozeCards(content, Located(highlightMatches))
  /\ step \in {"trigger", "group"}
       => qaQuestions = generateContextualQACards(Located(remNoteMatches), content)
  /\ step = "group"
       => triggerQuestions =
            generateContextualTriggerCards(Located(triggerWordMatches), content, triggers)

(* C23: for every document and every configured list of trigger words,
   extractHighlights, extractRemNoteCues and checkForTriggerWords each return
   a sequence of matches and never raise an error; the empty document yields
   the empty sequence. *)
C23_ExtractionTotal ==
  /\ step # "failed"
  /\ (content = <<>> /\ step \in {"cloze", "qa", "trigger", "group", "done"}) =>
       /\ highlightMatches = <<>>
       /\ remNoteMatches = <<>>
       /\ triggerWordMatches = <<>>

====
